---- MODULE Spec2Model ----
(***************************************************************************)
(* DatabaseRecord (V7Library): one logical record kept consistent between  *)
(* a MySQL row (plus an optional extra-table row) and a Memcached entry.   *)
(* The record type modelled is the TestRecord of the repository's tests:   *)
(* table test_records keyed by id, extra table test_extra keyed by         *)
(* record_id, derived field uppercaseName = UPPER(name).                   *)
(* Every adapter call (cache or SQL) is one atomic step. The local code up *)
(* to the next adapter call belongs to the step, and so does the call of   *)
(* the operation for its first adapter call: the instances run in          *)
(* different processes and meet only in the cache and the database.        *)
(* The static fields of the record type (its memoized metadata and          *)
(* dependency map) are one memo, the one of a process. Where the metadata  *)
(* is resolved when a behaviour begins, getMetadata, resolveDependencies   *)
(* and getExtraFields return the memoized values without an adapter call.  *)
(***************************************************************************)
EXTENDS Integers, Sequences, FiniteSets, TLC

\* ----------------------------------------------------------------- bounds
\* Instances (processes) of the general specification.
NumInst == 2
\* Public operations started, and cache expiries, in one behaviour of the
\* general specification.
MaxOps == 3
\* Writes and expiries of the key by other processes during one update or
\* lazy read of the retry specification.
MaxWrites == 6
\* Writes and expiries of the key by other processes while the instances of
\* the load specification load.
MaxForeign == 2

\* ------------------------------------------------------- program constants
MAX_CAS_ATTEMPTS == 5

DELETED_SENTINEL == "__DATABASE_RECORD_DELETED__"

\* The TTL, in seconds, of a payload cached without options.cacheExpiration.
DEFAULT_CACHE_EXPIRATION == 3600

\* JavaScript's undefined and null; column values are the strings "a", "b".
Undefined == "<undefined>"
Null == "<null>"

\* The key of the modelled record, {id: 1}, and the id noRecord gives.
KeyId == "1"
NoRecordId == "-1"

\* Columns of test_records and test_extra.
BaseCols == {"id", "name", "qty", "tag", "rank"}
ExtraPrimaryKey == "record_id"
ExtraCols == {"record_id", "note"}

\* The three bookkeeping fields of a payload.
Bookkeeping == {"extraTableRead", "cacheTimestamp", "cacheExpires"}

\* TestRecord.derivedFields: derived field -> the fields it is computed from.
DerivedFields == [uppercaseName |-> {"name"}]

\* UPPER(name) AS uppercaseName, the computed column of the SELECT.
Upper(v) == IF v = "a" THEN "A" ELSE IF v = "b" THEN "B" ELSE v

\* resolveDependencies: derivedFields inverted into parent -> dependents.
ResolveDependencies(derived) ==
  LET parents == UNION {derived[d] : d \in DOMAIN derived}
  IN [p \in parents |-> {d \in DOMAIN derived : p \in derived[d]}]

\* this.dependencies?.[field], the empty list when the field has none.
Dependents(field) ==
  LET deps == ResolveDependencies(DerivedFields)
  IN IF field \in DOMAIN deps THEN deps[field] ELSE {}

\* getExtraFields: the SHOW COLUMNS defaults of test_extra (null -> "").
ExtraTableDefaults == [c \in ExtraCols |-> ""]

\* ---------------------------------------------------------------- payloads
EmptyPayload == [f \in {} |-> ""]

\* record[field], undefined when the key is absent.
Get(p, f) == IF f \in DOMAIN p THEN p[f] ELSE Undefined

\* delete record[field] for every field of S.
Remove(p, S) == [g \in (DOMAIN p) \ S |-> p[g]]

\* Object.assign(record, update).
Assign(p, q) ==
  [g \in (DOMAIN p) \cup (DOMAIN q) |-> IF g \in DOMAIN q THEN q[g] ELSE p[g]]

\* applyUpdateToRecord with the dependency pass left out (the mutant of it).
ApplyUpdateKeepingDependents(record, update) ==
  LET setF == {f \in DOMAIN update : update[f] \notin {Null, Undefined}}
      delF == (DOMAIN update) \ setF
  IN [g \in ((DOMAIN record) \cup setF) \ delF |->
        IF g \in setF THEN update[g] ELSE record[g]]

\* applyUpdateToRecord: a copy of record with every field of update set
\* (removed when null or undefined), then every dependent of an updated
\* field removed.
ApplyUpdateToRecord(record, update) ==
  LET setF == {f \in DOMAIN update : update[f] \notin {Null, Undefined}}
      delF == (DOMAIN update) \ setF
      next == [g \in ((DOMAIN record) \cup setF) \ delF |->
                 IF g \in setF THEN update[g] ELSE record[g]]
  IN Remove(next, UNION {Dependents(f) : f \in DOMAIN update})

\* sanitiseUpdatePayload without the bookkeeping filter (the mutant of it).
SanitiseKeepingBookkeeping(record, payload) ==
  LET keep == {f \in DOMAIN payload :
                 payload[f] # Undefined /\ payload[f] # Get(record, f)}
  IN [f \in keep |-> payload[f]]

\* sanitiseUpdatePayload for a loaded record: bookkeeping fields, undefined
\* values and values identical to the in-memory ones are dropped.
SanitiseUpdatePayload(record, payload) ==
  LET keep == {f \in DOMAIN payload :
                 /\ f \notin Bookkeeping
                 /\ payload[f] # Undefined
                 /\ payload[f] # Get(record, f)}
  IN [f \in keep |-> payload[f]]

\* persistUpdate's partition of the update into the two tables.
BaseAssignments(update) ==
  {f \in DOMAIN update : f \notin Bookkeeping /\ f \notin DOMAIN ExtraTableDefaults}
ExtraAssignments(update) ==
  {f \in DOMAIN update : f \notin Bookkeeping /\ f \in DOMAIN ExtraTableDefaults}

\* decorateRecord and loadFromDatabase: the selected row with the computed
\* column, the two timestamps and extraTableRead = false.
DecorateRecord(row) ==
  Assign(row, [uppercaseName |-> Upper(row["name"]),
               cacheTimestamp |-> "now",
               cacheExpires |-> "later",
               extraTableRead |-> "false"])

\* TestRecord.noRecord: mergeRecord({id: -1, name: "", extraTableRead: true}).
NoRecordPayload == [id |-> NoRecordId, name |-> "", extraTableRead |-> "true"]

\* ------------------------------------------------------------------- state
VARIABLES
  cacheEnabled,  \* Cache.isEnabled()
  ctor,          \* the record type: its static configuration and memo
  metaCache,     \* the Memcached entry of the metadata key: [exists, keys, ttl]
  dbBase,        \* the test_records row of the key: [exists, row]
  dbExtra,       \* the test_extra rows by record_id: id -> [exists, row]
  cache,         \* the Memcached entry of the record key: [kind, value, cas, ttl]
  casSeq,        \* the cache's next CAS unique
  inst,          \* the DatabaseRecord instances
  ops,           \* calls and expiries so far
  overlap,       \* history: a call or an expiry fell into a call in progress
  bus            \* an EventBus: its listeners, disposers and history of calls

vars == <<cacheEnabled, ctor, metaCache, dbBase, dbExtra, cache, casSeq, inst, ops, overlap, bus>>

\* The record type of the tests and its static fields (events: the
\* field-specific events the type registers, as field and event in the
\* order of Object.entries; the type of the tests registers none).
TestRecord ==
  [tableName |-> "test_records", primaryKey |-> <<"id">>, events |-> <<>>,
   extraPrimaryKey |-> "record_id"]

\* A record type that declares no extraPrimaryKey: the key column of its
\* extra table has the name of the primary key.
SharedKeyRecord ==
  [tableName |-> "test_records", primaryKey |-> <<"id">>, events |-> <<>>,
   extraPrimaryKey |-> Undefined]

\* A record type that registers an event for name and one for note.
NotifyingRecord ==
  [tableName |-> "test_records", primaryKey |-> <<"id">>,
   events |-> << <<"name", "renamed">>, <<"note", "annotated">> >>,
   extraPrimaryKey |-> "record_id"]

\* A record type declaring a composite primary key, and one declaring no
\* table name.
CompositeRecord ==
  [tableName |-> "test_records", primaryKey |-> <<"id", "tag">>, events |-> <<>>,
   extraPrimaryKey |-> "record_id"]
UntabledRecord ==
  [tableName |-> "", primaryKey |-> <<"id">>, events |-> <<>>,
   extraPrimaryKey |-> "record_id"]

\* A table metadata object is modelled by the set of its keys.
MetadataKeys == {"dependencies", "extraTableFields"}

\* The static memo of a type in a process that has not loaded a record yet
\* (this.metadata = null, this.dependencies = undefined), and in one that has.
ColdType(type) ==
  [tableName |-> type.tableName, primaryKey |-> type.primaryKey,
   events |-> type.events, extraPrimaryKey |-> type.extraPrimaryKey,
   metadata |-> [set |-> FALSE, keys |-> {}], dependencies |-> FALSE]
ResolvedType(type) ==
  [tableName |-> type.tableName, primaryKey |-> type.primaryKey,
   events |-> type.events, extraPrimaryKey |-> type.extraPrimaryKey,
   metadata |-> [set |-> TRUE, keys |-> MetadataKeys], dependencies |-> TRUE]

\* The metadata entry: absent, and as cacheMetadata stores the resolved one.
NoMetaEntry == [exists |-> FALSE, keys |-> {}, ttl |-> 0]
ResolvedMetaEntry == [exists |-> TRUE, keys |-> MetadataKeys, ttl |-> 0]

NoEntry == [kind |-> "none", value |-> EmptyPayload, cas |-> 0, ttl |-> 0]
NoRow == [exists |-> FALSE, row |-> EmptyPayload]
ExtraIds == {KeyId, NoRecordId}

\* getExtraPrimaryKeyStatic: the declared extraPrimaryKey, else the first
\* field of the primary key.
GetExtraPrimaryKeyStatic(type) ==
  IF type.extraPrimaryKey = Undefined THEN type.primaryKey[1]
  ELSE type.extraPrimaryKey

\* getExtraFields for a type: the SHOW COLUMNS defaults of its extra table,
\* whose columns are the key column and note (null -> "").
ExtraTableFields(type) ==
  [c \in {GetExtraPrimaryKeyStatic(type), "note"} |-> ""]

\* An instance slot before load() has constructed an instance in it. Beside
\* the fields of the object (forceRead, record, casToken, inCache), the
\* position and locals of the call in progress, an instance carries the
\* metadata of the type as the instance resolved it (metadata), and its
\* history: the number of its load among the calls (seq), the unique of the
\* entry the load read (loadedCas), the argument of its last update (data),
\* the adapter calls and events of its last operation (log), and what the
\* load's write to the cache met: the kind of entry under the key (met) and
\* whether the base row was already deleted (late), and the entry the
\* load's first read of the cache returned (found), and the kind of entry
\* the re-read after the latest failed cas returned (reread). An instance
\* insert is making carries the emitEvent option of the call and the
\* insertId its base INSERT returned. Where the key of the record is under
\* study the instance carries the keyValues it was constructed with and its
\* cacheKey, else the key is {id: KeyId} throughout. A slot whose pc is
\* "returned" holds no instance but what a static call returned (returned).
\* A slot whose pc is
\* "failed" holds no instance: the call that was to return it threw or
\* returned null.
NoInstance ==
  [pc |-> "none", op |-> "none", forceRead |-> FALSE, hasRecord |-> FALSE,
   record |-> EmptyPayload, casToken |-> 0, inCache |-> FALSE,
   seq |-> 0, loadedCas |-> 0, data |-> EmptyPayload, update |-> EmptyPayload,
   casRecord |-> EmptyPayload, casArg |-> 0, attempt |-> 0,
   timeout |-> 0, log |-> <<>>, met |-> "", late |-> FALSE,
   found |-> NoEntry, metadata |-> {}, reread |-> "",
   emitEvent |-> TRUE, insertId |-> "",
   keyValues |-> <<>>, cacheKey |-> <<>>, returned |-> FALSE,
   dependencies |-> [set |-> FALSE, map |-> <<>>]]

Inst == DOMAIN inst
Idle(i) == inst[i].pc = "idle"
Loaded(i) == Idle(i) /\ inst[i].hasRecord


\* The locals of performCasUpdate and delete, gone when the call returns.
NoLocals == [casRecord |-> EmptyPayload, casArg |-> 0, attempt |-> 0, timeout |-> 0]

\* Instance i becomes self with the fields of q assigned; an operation that
\* returns (pc = "idle") leaves no locals behind.
Becomes(i, self, q) ==
  LET next == Assign(self, q)
  IN inst' = [inst EXCEPT ![i] =
                IF next.pc = "idle" THEN Assign(next, NoLocals) ELSE next]

\* The log of the operation in progress: its adapter calls and events in order.
Logged(self, what) == Append(self.log, what)

\* How often an entry occurs in a log.
Count(log, what) == Cardinality({k \in DOMAIN log : log[k] = what})

IsObject(entry) == entry.kind = "object"

\* The entry a successful set, add or cas of a payload stores, with
\* this.cacheExpiration as its TTL.
Stored(kind, value) ==
  [kind |-> kind, value |-> value, cas |-> casSeq,
   ttl |-> DEFAULT_CACHE_EXPIRATION]

\* Inputs of update() in the general specification.
UpdateInputs ==
  { EmptyPayload,
    [name |-> "b"],
    [name |-> "a"],
    [note |-> "b"],
    [name |-> "b", note |-> "b"],
    [name |-> Null],
    [cacheTimestamp |-> "other", name |-> Undefined] }

\* Inputs of delete(): timeoutSeconds.
DeleteTimeouts == {0, 5}

InitialRow == [c \in BaseCols |-> IF c = "id" THEN KeyId ELSE "a"]
InitialExtraRow == [record_id |-> KeyId, note |-> "a"]

\* ----------------------------------------------------------------- metadata
\* initialise between its cache read and its database read, as far as the
\* next adapter call. Each operator takes the static fields c and the
\* metadata md the instance holds, and gives the static fields and the
\* metadata the local code leaves and the adapter call reached (pc), "done"
\* when none is left.

\* insert before its base INSERT: no instance is constructed yet (forceRead
\* is set by the load insert makes afterwards), and the metadata is resolved
\* by getMetadata and getExtraFieldSet only.
Inserting(self) == self.op = "insert" /\ ~self.forceRead

\* getExtraFields: the memoized extraTableFields, else SHOW COLUMNS.
FromExtraFields(c, md) ==
  [ctor |-> c, metadata |-> md,
   pc |-> IF "extraTableFields" \in md THEN "done" ELSE "showColumns"]

\* resolveDependencies: the static map; else the map of the metadata, made
\* the static map; else the derived fields inverted, stored in the static
\* fields and handed to cacheMetadata.
FromDependencies(c, md) ==
  IF c.dependencies THEN FromExtraFields(c, md)
  ELSE IF "dependencies" \in md
  THEN FromExtraFields([c EXCEPT !.dependencies = TRUE], md)
  ELSE LET updated == md \cup {"dependencies"}
           c2 == [c EXCEPT !.metadata = [set |-> TRUE, keys |-> updated],
                           !.dependencies = TRUE]
       IN IF cacheEnabled
          THEN [ctor |-> c2, metadata |-> updated, pc |-> "cacheDependencies"]
          ELSE FromExtraFields(c2, updated)

\* getMetadata: the memo; else the metadata entry of the cache; else, without
\* cache, the empty metadata.
FromMetadata(c) ==
  IF c.metadata.set THEN FromDependencies(c, c.metadata.keys)
  ELSE IF cacheEnabled THEN [ctor |-> c, metadata |-> {}, pc |-> "getMetadata"]
  ELSE FromDependencies([c EXCEPT !.metadata = [set |-> TRUE, keys |-> {}]], {})

\* What follows getMetadata: resolveDependencies in initialise,
\* getExtraFieldSet in insert.
AfterGetMetadata(self, c, md) ==
  IF Inserting(self) THEN FromExtraFields(c, md) ELSE FromDependencies(c, md)

\* insert's getExtraFieldSet(await getMetadata()).
FromInsertMetadata(c) ==
  IF c.metadata.set THEN FromExtraFields(c, c.metadata.keys)
  ELSE IF cacheEnabled THEN [ctor |-> c, metadata |-> {}, pc |-> "getMetadata"]
  ELSE FromExtraFields([c EXCEPT !.metadata = [set |-> TRUE, keys |-> {}]], {})

\* Where the call goes on once the metadata is resolved: insert to its base
\* INSERT, initialise to loadFromDatabase when no payload was adopted or the
\* read is forced.
DonePc(self) ==
  IF Inserting(self) THEN "insertBase"
  ELSE IF ~self.hasRecord \/ self.forceRead THEN "select" ELSE "idle"

\* The instance and the static fields as the local code r leaves them.
Resolved(i, self, r) ==
  /\ ctor' = r.ctor
  /\ Becomes(i, self, [metadata |-> r.metadata,
                        pc |-> IF r.pc = "done" THEN DonePc(self) ELSE r.pc])

\* getMetadata: Cache.get of the metadata key; a miss leads to Cache.add of
\* the empty metadata; a hit becomes the memo.
GetMetadata(i) ==
  /\ inst[i].pc = "getMetadata"
  /\ LET self == Assign(inst[i], [log |-> Logged(inst[i], "meta:get")])
     IN IF metaCache.exists
        THEN Resolved(i, self,
               AfterGetMetadata(self,
                 [ctor EXCEPT !.metadata = [set |-> TRUE, keys |-> metaCache.keys]],
                 metaCache.keys))
        ELSE /\ Becomes(i, self, [pc |-> "metaAdd"])
             /\ UNCHANGED ctor
  /\ UNCHANGED <<cacheEnabled, metaCache, dbBase, dbExtra, cache, casSeq>>

\* getMetadata: Cache.add of the empty metadata for 1800 seconds; the empty
\* metadata becomes the memo.
MetaAdd(i) ==
  /\ inst[i].pc = "metaAdd"
  /\ metaCache' = IF metaCache.exists THEN metaCache
                  ELSE [exists |-> TRUE, keys |-> {}, ttl |-> 1800]
  /\ Resolved(i, Assign(inst[i], [log |-> Logged(inst[i], "meta:add")]),
              AfterGetMetadata(inst[i],
                [ctor EXCEPT !.metadata = [set |-> TRUE, keys |-> {}]], {}))
  /\ UNCHANGED <<cacheEnabled, dbBase, dbExtra, cache, casSeq>>

\* cacheMetadata after resolveDependencies: Cache.set of the metadata with
\* the dependency map, without TTL.
CacheDependencies(i) ==
  /\ inst[i].pc = "cacheDependencies"
  /\ metaCache' = [exists |-> TRUE, keys |-> inst[i].metadata, ttl |-> 0]
  /\ Resolved(i, Assign(inst[i], [log |-> Logged(inst[i], "meta:set")]),
              FromExtraFields(ctor, inst[i].metadata))
  /\ UNCHANGED <<cacheEnabled, dbBase, dbExtra, cache, casSeq>>

\* getExtraFields: SHOW COLUMNS FROM test_extra; the defaults join the
\* metadata, which becomes the memo and is handed to cacheMetadata.
ShowColumns(i) ==
  /\ inst[i].pc = "showColumns"
  /\ LET updated == inst[i].metadata \cup {"extraTableFields"}
     IN /\ ctor' = [ctor EXCEPT !.metadata = [set |-> TRUE, keys |-> updated]]
        /\ Becomes(i, inst[i],
             [metadata |-> updated, log |-> Logged(inst[i], "showColumns"),
              pc |-> IF cacheEnabled THEN "cacheExtraFields"
                     ELSE DonePc(inst[i])])
  /\ UNCHANGED <<cacheEnabled, metaCache, dbBase, dbExtra, cache, casSeq>>

\* cacheMetadata after getExtraFields: Cache.set of the metadata with the
\* defaults, without TTL.
CacheExtraFields(i) ==
  /\ inst[i].pc = "cacheExtraFields"
  /\ metaCache' = [exists |-> TRUE, keys |-> inst[i].metadata, ttl |-> 0]
  /\ Becomes(i, inst[i], [log |-> Logged(inst[i], "meta:set"),
                          pc |-> DonePc(inst[i])])
  /\ UNCHANGED <<cacheEnabled, ctor, dbBase, dbExtra, cache, casSeq>>

\* --------------------------------------------------------------------- load
\* tryLoadFromCache adopting whatever value the key holds (the mutant).
TryLoadFromCacheAdoptingAny(i, self) ==
  /\ Resolved(i,
       IF cache.kind # "none"
       THEN Assign(self, [casToken |-> cache.cas, record |-> cache.value,
                          hasRecord |-> TRUE, inCache |-> TRUE,
                          loadedCas |-> cache.cas, found |-> cache,
                          log |-> Logged(self, "gets")])
       ELSE Assign(self, [found |-> cache, log |-> Logged(self, "gets")]),
       FromMetadata(ctor))
  /\ UNCHANGED <<cacheEnabled, metaCache, dbBase, dbExtra, cache, casSeq>>

\* tryLoadFromCache: Cache.gets; an object value is adopted with its token
\* and initialise, the metadata resolved, then skips the database. The
\* sentinel and every other value that is not an object are passed over.
TryLoadFromCache(i, self) ==
  /\ Resolved(i,
       IF IsObject(cache)
       THEN Assign(self, [casToken |-> cache.cas, record |-> cache.value,
                          hasRecord |-> TRUE, inCache |-> TRUE,
                          loadedCas |-> cache.cas, found |-> cache,
                          log |-> Logged(self, "gets")])
       ELSE Assign(self, [found |-> cache, log |-> Logged(self, "gets")]),
       FromMetadata(ctor))
  /\ UNCHANGED <<cacheEnabled, metaCache, dbBase, dbExtra, cache, casSeq>>

\* What follows the last adapter call of a load, given the log up to it:
\* load returns; within insert, the INSERT of the extra row follows when the
\* data holds extra columns (getPrimaryKeyValue throws for a composite key),
\* else the insert event.
AfterLoad(self, log) ==
  IF self.op # "insert" THEN [log |-> log, pc |-> "idle"]
  ELSE IF ExtraAssignments(self.data) = {}
  THEN [log |-> IF self.emitEvent THEN Append(log, "event:insert") ELSE log,
        pc |-> "idle"]
  ELSE IF Len(ctor.primaryKey) # 1
  THEN [log |-> Append(log, "throw:primaryKey"), pc |-> "failed"]
  ELSE [log |-> log, pc |-> "insertExtraRow"]

\* loadFromDatabase handing noRecord's payload to writeToCache (the mutant).
LoadFromDatabaseCachingNoRecord(i, self) ==
  /\ IF ~dbBase.exists /\ ~cacheEnabled
       THEN Becomes(i, self,
              Assign([record |-> Assign(self.record, NoRecordPayload),
                      hasRecord |-> TRUE],
                     AfterLoad(self, Logged(self, "select"))))
       ELSE IF cacheEnabled
       THEN Becomes(i, self,
              [record |-> IF dbBase.exists THEN DecorateRecord(dbBase.row)
                          ELSE Assign(self.record, NoRecordPayload),
               hasRecord |-> TRUE, inCache |-> FALSE,
               log |-> Logged(self, "select"), pc |-> "write"])
       ELSE Becomes(i, self,
              Assign([record |-> DecorateRecord(dbBase.row),
                      hasRecord |-> TRUE, inCache |-> FALSE],
                     AfterLoad(self, Logged(self, "select"))))
  /\ UNCHANGED <<cacheEnabled, ctor, metaCache, dbBase, dbExtra, cache, casSeq>>

\* loadFromDatabase up to writeToCache's first cache call: the SELECT, then
\* noRecord when there is no row, else the decorated payload.
LoadFromDatabase(i, self) ==
  /\ IF ~dbBase.exists
       THEN Becomes(i, self,
              Assign([record |-> Assign(self.record, NoRecordPayload),
                      hasRecord |-> TRUE],
                     AfterLoad(self, Logged(self, "select"))))
       ELSE IF cacheEnabled
       THEN Becomes(i, self, [record |-> DecorateRecord(dbBase.row),
                              hasRecord |-> TRUE, inCache |-> FALSE,
                              log |-> Logged(self, "select"), pc |-> "write"])
       ELSE Becomes(i, self,
              Assign([record |-> DecorateRecord(dbBase.row),
                      hasRecord |-> TRUE, inCache |-> FALSE],
                     AfterLoad(self, Logged(self, "select"))))
  /\ UNCHANGED <<cacheEnabled, ctor, metaCache, dbBase, dbExtra, cache, casSeq>>

\* DatabaseRecord.load: the constructor and initialise up to and including
\* its first adapter call, the cache read or, when forced or without cache,
\* the SELECT (with the metadata not resolved yet, up to the first adapter
\* call of its resolution). A load constructs a new instance, in the first
\* free slot. The constructor throws for a type without table name
\* (makeCacheKey).
Load(i, force) ==
  /\ inst[i].pc = "none"
  /\ \A j \in Inst : j < i => inst[j].pc # "none"
  /\ LET self == Assign(NoInstance, [op |-> "load", forceRead |-> force,
                                     seq |-> ops + 1])
     IN IF ctor.tableName = ""
        THEN /\ Becomes(i, self, [log |-> <<"throw:tableName">>,
                                  pc |-> "failed"])
             /\ UNCHANGED <<cacheEnabled, ctor, metaCache, dbBase, dbExtra,
                            cache, casSeq>>
        ELSE IF ~force /\ cacheEnabled
        THEN TryLoadFromCache(i, self)
        ELSE IF FromMetadata(ctor).pc = "done" /\ FromMetadata(ctor).ctor = ctor
        THEN LoadFromDatabase(i, Assign(self,
               [metadata |-> FromMetadata(ctor).metadata]))
        ELSE /\ Resolved(i, self, FromMetadata(ctor))
             /\ UNCHANGED <<cacheEnabled, metaCache, dbBase, dbExtra, cache,
                            casSeq>>

\* initialise after a cache miss: loadFromDatabase.
LoadSelect(i) ==
  /\ inst[i].pc = "select"
  /\ LoadFromDatabase(i, inst[i])

\* writeToCache whose Cache.add stores nothing (the mutant).
LoadWriteWithoutAdd(i) ==
  /\ inst[i].pc = "write"
  /\ IF inst[i].forceRead
       THEN /\ cache' = Stored("object", inst[i].record)
            /\ casSeq' = casSeq + 1
       ELSE UNCHANGED <<cache, casSeq>>
  /\ Becomes(i, inst[i],
             [log |-> Logged(inst[i], IF inst[i].forceRead THEN "set" ELSE "add"),
              pc |-> "refresh"])
  /\ UNCHANGED <<cacheEnabled, ctor, metaCache, dbBase, dbExtra>>

\* writeToCache storing the payload with Cache.set whether the read was
\* forced or not (the mutant).
LoadWriteOverwriting(i) ==
  /\ inst[i].pc = "write"
  /\ cache' = Stored("object", inst[i].record)
  /\ casSeq' = casSeq + 1
  /\ Becomes(i, inst[i],
             [log |-> Logged(inst[i], IF inst[i].forceRead THEN "set" ELSE "add"),
              met |-> cache.kind, late |-> ~dbBase.exists,
              pc |-> "refresh"])
  /\ UNCHANGED <<cacheEnabled, ctor, metaCache, dbBase, dbExtra>>

\* writeToCache using Cache.add for a forced read too (the mutant).
LoadWriteAddingOnly(i) ==
  /\ inst[i].pc = "write"
  /\ IF cache.kind = "none"
       THEN /\ cache' = Stored("object", inst[i].record)
            /\ casSeq' = casSeq + 1
       ELSE UNCHANGED <<cache, casSeq>>
  /\ Becomes(i, inst[i],
             [log |-> Logged(inst[i], IF inst[i].forceRead THEN "set" ELSE "add"),
              met |-> cache.kind, late |-> ~dbBase.exists,
              pc |-> "refresh"])
  /\ UNCHANGED <<cacheEnabled, ctor, metaCache, dbBase, dbExtra>>

\* writeToCache: Cache.set for a forced read, else Cache.add.
LoadWrite(i) ==
  /\ inst[i].pc = "write"
  /\ IF inst[i].forceRead \/ cache.kind = "none"
       THEN /\ cache' = Stored("object", inst[i].record)
            /\ casSeq' = casSeq + 1
       ELSE UNCHANGED <<cache, casSeq>>
  /\ Becomes(i, inst[i],
             [log |-> Logged(inst[i], IF inst[i].forceRead THEN "set" ELSE "add"),
              met |-> cache.kind, late |-> ~dbBase.exists,
              pc |-> "refresh"])
  /\ UNCHANGED <<cacheEnabled, ctor, metaCache, dbBase, dbExtra>>

\* writeToCache writing once more after its first re-read (the mutant).
LoadRefreshWritingAgain(i) ==
  /\ inst[i].pc = "refresh"
  /\ Becomes(i, inst[i],
       [inCache |-> FALSE, log |-> Logged(inst[i], "gets"),
        pc |-> IF Count(inst[i].log, "gets") < 2 THEN "write" ELSE "idle"])
  /\ UNCHANGED <<cacheEnabled, ctor, metaCache, dbBase, dbExtra, cache, casSeq>>

\* writeToCache marking the payload it adopts as a cache hit, with
\* loadFromDatabase leaving the flag alone (the mutant).
LoadRefreshMarkingHit(i) ==
  /\ inst[i].pc = "refresh"
  /\ IF IsObject(cache)
       THEN Becomes(i, inst[i],
              Assign([casToken |-> cache.cas, record |-> cache.value,
                      inCache |-> TRUE, loadedCas |-> cache.cas],
                     AfterLoad(inst[i], Logged(inst[i], "gets"))))
       ELSE Becomes(i, inst[i],
              Assign([inCache |-> FALSE],
                     AfterLoad(inst[i], Logged(inst[i], "gets"))))
  /\ UNCHANGED <<cacheEnabled, ctor, metaCache, dbBase, dbExtra, cache, casSeq>>

\* writeToCache: the Cache.gets after the write; an object value is adopted
\* with its token. loadFromDatabase then sets inCache = false.
LoadRefresh(i) ==
  /\ inst[i].pc = "refresh"
  /\ IF IsObject(cache)
       THEN Becomes(i, inst[i],
              Assign([casToken |-> cache.cas, record |-> cache.value,
                      inCache |-> FALSE, loadedCas |-> cache.cas],
                     AfterLoad(inst[i], Logged(inst[i], "gets"))))
       ELSE Becomes(i, inst[i],
              Assign([inCache |-> FALSE],
                     AfterLoad(inst[i], Logged(inst[i], "gets"))))
  /\ UNCHANGED <<cacheEnabled, ctor, metaCache, dbBase, dbExtra, cache, casSeq>>

\* ------------------------------------------------------------------- update
\* persistUpdate issuing the UPDATE of the base table whatever the fields
\* (the mutant).
PersistPcBaseFirst(update) == "persistBase"

\* The first SQL statement of persistUpdate for this update.
PersistPc(update) ==
  IF BaseAssignments(update) # {} THEN "persistBase" ELSE "persistExtra"

\* Where an operation continues once updateCache has returned: update goes
\* on to persistUpdate, readExtraData returns.
AfterUpdateCache(self) ==
  IF self.op = "update" THEN PersistPc(self.update) ELSE "idle"

\* performCasUpdate storing the candidate whatever the token (the mutant).
PerformCasUpdateUnconditional(i, self) ==
  /\ LET candidate == ApplyUpdateToRecord(self.casRecord, self.update)
     IN /\ cache' = Stored("object", candidate)
        /\ casSeq' = casSeq + 1
        /\ Becomes(i, self, [casRecord |-> candidate,
                             log |-> Logged(self, "cas"), pc |-> "casStored"])
  /\ UNCHANGED <<cacheEnabled, ctor, metaCache, dbBase, dbExtra>>

\* performCasUpdate: the candidate and Cache.cas, which stores it when the
\* entry still carries the token's unique.
PerformCasUpdate(i, self) ==
  /\ LET candidate == ApplyUpdateToRecord(self.casRecord, self.update)
     IN IF cache.kind # "none" /\ cache.cas = self.casArg
        THEN /\ cache' = Stored("object", candidate)
             /\ casSeq' = casSeq + 1
             /\ Becomes(i, self, [casRecord |-> candidate, reread |-> "",
                                  log |-> Logged(self, "cas"), pc |-> "casStored"])
        ELSE /\ Becomes(i, self, [casRecord |-> EmptyPayload, casArg |-> 0,
                                  reread |-> "",
                                  log |-> Logged(self, "cas:false"),
                                  pc |-> "casFailed"])
             /\ UNCHANGED <<cache, casSeq>>
  /\ UNCHANGED <<cacheEnabled, ctor, metaCache, dbBase, dbExtra>>

\* fireFieldEvents: the events registered for the fields of the update, in
\* the order of their registration.
FireFieldEvents(events, update) ==
  LET present == SelectSeq(events, LAMBDA e : e[1] \in DOMAIN update)
  IN [k \in 1..Len(present) |-> "event:" \o present[k][2]]

\* update's tail firing every registered field event (the mutant).
FireUpdateEveryField(self, log) ==
  Append(log, "event:update") \o
    [k \in 1..Len(ctor.events) |-> "event:" \o ctor.events[k][2]]

\* update's tail: fireEvent("update"), then fireFieldEvents.
FireUpdate(self, log) ==
  Append(log, "event:update") \o FireFieldEvents(ctor.events, self.update)

\* getPrimaryKeyValue: this.record[id].
PrimaryKeyValue(self) == Get(self.record, "id")

\* Raw SQL expressions as values of an update, DatabaseRecord.literal(sql,
\* params): one without parameter and one with a placeholder and its
\* parameter. In a payload the expression object stands as its sql text.
SqlExpressions == {"NOW()", "UPPER(?)"}
IsSqlExpression(value) == value \in SqlExpressions
SqlParams(value) == IF value = "UPPER(?)" THEN <<"b">> ELSE <<>>

\* What the database makes of an expression and its parameters.
Evaluate(sql, params) ==
  IF sql = "NOW()" THEN "t" ELSE IF sql = "UPPER(?)" THEN Upper(params[1]) ELSE sql

\* appendAssignment: "field = <sql>" with the parameters of the expression,
\* or "field = ?" with the value as parameter.
AppendAssignment(field, value) ==
  IF IsSqlExpression(value)
  THEN [field |-> field, sql |-> value, params |-> SqlParams(value)]
  ELSE [field |-> field, sql |-> "?", params |-> <<value>>]

\* The value an assignment of an UPDATE gives its column.
Assigned(value) ==
  LET a == AppendAssignment("", value)
  IN IF a.sql = "?" THEN a.params[1] ELSE Evaluate(a.sql, a.params)

\* An UPDATE that assigns nothing (the mutant).
SetColumnsKeepingRow(row, update, cols) == row

\* The row an UPDATE ... SET leaves: the assigned columns take the values.
SetColumns(row, update, cols) ==
  [c \in DOMAIN row |-> IF c \in cols THEN Assigned(update[c]) ELSE row[c]]

\* The fields of a set in the order of Object.entries.
RECURSIVE InOrder(_)
InOrder(fields) ==
  IF fields = {} THEN <<>>
  ELSE LET f == CHOOSE g \in fields : TRUE
       IN <<f>> \o InOrder(fields \ {f})

\* The parameters of assignments, one after the other.
RECURSIVE ParamsOf(_)
ParamsOf(assignments) ==
  IF Len(assignments) = 0 THEN <<>>
  ELSE assignments[1].params \o ParamsOf(Tail(assignments))

\* The statement of persistUpdate's fallback: INSERT INTO test_extra
\* (record_id, <fields>) VALUES (?, ...) with a placeholder for every
\* column, and as parameters the primary-key value and the parameters of
\* the UPDATE's assignments.
ExtraInsertStatement(self) ==
  LET fields == InOrder(ExtraAssignments(self.update))
      extraAssignments ==
        [k \in DOMAIN fields |-> AppendAssignment(fields[k], self.update[fields[k]])]
  IN [columns |-> <<ExtraPrimaryKey>> \o fields,
      values |-> [k \in 1..(Len(fields) + 1) |-> "?"],
      params |-> <<PrimaryKeyValue(self)>> \o ParamsOf(extraAssignments)]

\* A prepared statement can be executed: it has a parameter for every
\* placeholder and no more.
Executable(statement) ==
  Len(statement.params) =
    Cardinality({k \in DOMAIN statement.values :
                   statement.values[k] \in {"?", "UPPER(?)"}})

\* The values an executable INSERT gives its columns: each entry of the
\* VALUES list evaluated with the parameters it takes, from left to right.
RECURSIVE InsertedValues(_, _)
InsertedValues(values, params) ==
  IF Len(values) = 0 THEN <<>>
  ELSE IF values[1] = "?"
  THEN <<params[1]>> \o InsertedValues(Tail(values), Tail(params))
  ELSE IF values[1] = "UPPER(?)"
  THEN <<Evaluate(values[1], params)>>
       \o InsertedValues(Tail(values), Tail(params))
  ELSE <<Evaluate(values[1], <<>>)>> \o InsertedValues(Tail(values), params)

\* persistUpdate: UPDATE test_records SET ... WHERE id = ?.
UpdateBaseTable(i, self) ==
  /\ dbBase' = IF dbBase.exists
       THEN [dbBase EXCEPT !.row =
               SetColumns(@, self.update, BaseAssignments(self.update))]
       ELSE dbBase
  /\ IF ExtraAssignments(self.update) # {}
       THEN Becomes(i, self, [log |-> Logged(self, "updateBase"),
                              pc |-> "persistExtra"])
       ELSE Becomes(i, self, [log |-> FireUpdate(self, Logged(self, "updateBase")),
                              pc |-> "idle"])
  /\ UNCHANGED <<cacheEnabled, ctor, metaCache, dbExtra, cache, casSeq>>

\* persistUpdate: UPDATE test_extra SET ... WHERE record_id = ?; zero
\* affected rows lead to the INSERT.
UpdateExtraTable(i, self) ==
  /\ LET key == PrimaryKeyValue(self)
         found == key \in ExtraIds /\ dbExtra[key].exists
     IN /\ dbExtra' = IF found
             THEN [dbExtra EXCEPT ![key].row =
                     SetColumns(@, self.update, ExtraAssignments(self.update))]
             ELSE dbExtra
        /\ IF found
             THEN Becomes(i, self, [log |-> FireUpdate(self, Logged(self, "updateExtra")),
                                    pc |-> "idle"])
             ELSE Becomes(i, self, [log |-> Logged(self, "updateExtra"),
                                    pc |-> "insertExtra"])
  /\ UNCHANGED <<cacheEnabled, ctor, metaCache, dbBase, cache, casSeq>>

\* persistUpdate's first statement.
PersistUpdate(i, self) ==
  IF BaseAssignments(self.update) # {}
  THEN UpdateBaseTable(i, self)
  ELSE UpdateExtraTable(i, self)

\* update() handing every update to performCasUpdate, with or without cache
\* and token (the mutant).
UpdateAlwaysCas(i, data) ==
  /\ Loaded(i)
  /\ LET sanitized == SanitiseUpdatePayload(inst[i].record, data)
         self == Assign(inst[i], [op |-> "update", data |-> data,
                                  update |-> sanitized, log |-> <<>>])
     IN IF DOMAIN sanitized = {}
        THEN /\ Becomes(i, self, [pc |-> "idle"])
             /\ UNCHANGED <<cacheEnabled, ctor, metaCache, dbBase, dbExtra, cache, casSeq>>
        ELSE PerformCasUpdate(i, Assign(self,
               [casRecord |-> self.record, casArg |-> self.casToken,
                attempt |-> 1]))

\* update() on a loaded record up to and including its first adapter call:
\* the sanitised payload; nothing more when it is empty; else updateCache,
\* which without cache or token merges in memory and leaves the first call
\* to persistUpdate, and otherwise calls performCasUpdate with a copy of
\* this.record, this.casToken and attempt 1.
Update(i, data) ==
  /\ Loaded(i)
  /\ LET sanitized == SanitiseUpdatePayload(inst[i].record, data)
         self == Assign(inst[i], [op |-> "update", data |-> data,
                                  update |-> sanitized, log |-> <<>>])
     IN IF DOMAIN sanitized = {}
        THEN /\ Becomes(i, self, [pc |-> "idle"])
             /\ UNCHANGED <<cacheEnabled, ctor, metaCache, dbBase, dbExtra, cache, casSeq>>
        ELSE IF ~cacheEnabled \/ self.casToken = 0
        THEN PersistUpdate(i, Assign(self,
               [record |-> Assign(self.record, sanitized)]))
        ELSE PerformCasUpdate(i, Assign(self,
               [casRecord |-> self.record, casArg |-> self.casToken,
                attempt |-> 1]))

\* performCasUpdate, attempt 2 and later.
CasAttempt(i) ==
  /\ inst[i].pc = "cas"
  /\ PerformCasUpdate(i, inst[i])

\* performCasUpdate after a successful cas: Cache.gets; the value read is
\* adopted with its token, or the candidate when no object is read.
CasRefreshStored(i) ==
  /\ inst[i].pc = "casStored"
  /\ IF IsObject(cache)
       THEN Becomes(i, inst[i], [casToken |-> cache.cas, record |-> cache.value,
                                 log |-> Logged(inst[i], "gets"),
                                 pc |-> AfterUpdateCache(inst[i])])
       ELSE Becomes(i, inst[i], [record |-> inst[i].casRecord,
                                 log |-> Logged(inst[i], "gets"),
                                 pc |-> AfterUpdateCache(inst[i])])
  /\ UNCHANGED <<cacheEnabled, ctor, metaCache, dbBase, dbExtra, cache, casSeq>>

\* performCasUpdate retrying with the refreshed token but the record of the
\* failed attempt (the mutant).
CasRefreshFailedKeepingRecord(i) ==
  /\ inst[i].pc = "casFailed"
  /\ IF ~IsObject(cache)
       THEN Becomes(i, inst[i], [log |-> Logged(inst[i], "gets"),
                                 pc |-> AfterUpdateCache(inst[i])])
       ELSE Becomes(i, inst[i],
              [casRecord |-> inst[i].record,
               casArg |-> cache.cas, attempt |-> inst[i].attempt + 1,
               log |-> Logged(inst[i], "gets"),
               pc |-> IF inst[i].attempt + 1 > MAX_CAS_ATTEMPTS
                      THEN AfterUpdateCache(inst[i]) ELSE "cas"])
  /\ UNCHANGED <<cacheEnabled, ctor, metaCache, dbBase, dbExtra, cache, casSeq>>

\* performCasUpdate throwing when it runs out of attempts, so that update
\* ends before persistUpdate and its events (the mutant).
CasRefreshFailedThrowing(i) ==
  /\ inst[i].pc = "casFailed"
  /\ IF ~IsObject(cache)
       THEN Becomes(i, inst[i], [log |-> Logged(inst[i], "gets"),
                                 pc |-> AfterUpdateCache(inst[i])])
       ELSE Becomes(i, inst[i],
              [record |-> cache.value, casRecord |-> cache.value,
               casArg |-> cache.cas, attempt |-> inst[i].attempt + 1,
               log |-> IF inst[i].attempt + 1 > MAX_CAS_ATTEMPTS
                       THEN Append(Logged(inst[i], "gets"), "throw")
                       ELSE Logged(inst[i], "gets"),
               pc |-> IF inst[i].attempt + 1 > MAX_CAS_ATTEMPTS
                      THEN "idle" ELSE "cas"])
  /\ UNCHANGED <<cacheEnabled, ctor, metaCache, dbBase, dbExtra, cache, casSeq>>

\* performCasUpdate without the attempt > MAX_CAS_ATTEMPTS return (the
\* mutant).
CasRefreshFailedUnbounded(i) ==
  /\ inst[i].pc = "casFailed"
  /\ IF ~IsObject(cache)
       THEN Becomes(i, inst[i], [log |-> Logged(inst[i], "gets"),
                                 pc |-> AfterUpdateCache(inst[i])])
       ELSE Becomes(i, inst[i],
              [record |-> cache.value, casRecord |-> cache.value,
               casArg |-> cache.cas, attempt |-> inst[i].attempt + 1,
               log |-> Logged(inst[i], "gets"), pc |-> "cas"])
  /\ UNCHANGED <<cacheEnabled, ctor, metaCache, dbBase, dbExtra, cache, casSeq>>

\* performCasUpdate retrying after a re-read that found no object, with the
\* record it holds (the mutant).
CasRefreshFailedRetryingMissing(i) ==
  /\ inst[i].pc = "casFailed"
  /\ IF ~IsObject(cache)
       THEN Becomes(i, inst[i],
              [casRecord |-> inst[i].record, attempt |-> inst[i].attempt + 1,
               reread |-> cache.kind, log |-> Logged(inst[i], "gets"),
               pc |-> IF inst[i].attempt + 1 > MAX_CAS_ATTEMPTS
                      THEN AfterUpdateCache(inst[i]) ELSE "cas"])
       ELSE Becomes(i, inst[i],
              [record |-> cache.value, casRecord |-> cache.value,
               casArg |-> cache.cas, attempt |-> inst[i].attempt + 1,
               reread |-> cache.kind, log |-> Logged(inst[i], "gets"),
               pc |-> IF inst[i].attempt + 1 > MAX_CAS_ATTEMPTS
                      THEN AfterUpdateCache(inst[i]) ELSE "cas"])
  /\ UNCHANGED <<cacheEnabled, ctor, metaCache, dbBase, dbExtra, cache, casSeq>>

\* performCasUpdate after a failed cas: Cache.gets; no object ends the
\* update of the cache; else the value read becomes this.record and the
\* base of attempt + 1, which returns at once beyond MAX_CAS_ATTEMPTS.
CasRefreshFailed(i) ==
  /\ inst[i].pc = "casFailed"
  /\ IF ~IsObject(cache)
       THEN Becomes(i, inst[i], [reread |-> cache.kind,
                                 log |-> Logged(inst[i], "gets"),
                                 pc |-> AfterUpdateCache(inst[i])])
       ELSE Becomes(i, inst[i],
              [record |-> cache.value, casRecord |-> cache.value,
               casArg |-> cache.cas, attempt |-> inst[i].attempt + 1,
               reread |-> cache.kind,
               log |-> Logged(inst[i], "gets"),
               pc |-> IF inst[i].attempt + 1 > MAX_CAS_ATTEMPTS
                      THEN AfterUpdateCache(inst[i]) ELSE "cas"])
  /\ UNCHANGED <<cacheEnabled, ctor, metaCache, dbBase, dbExtra, cache, casSeq>>

\* persistUpdate's UPDATE of the base table after the cache update.
PersistBase(i) ==
  /\ inst[i].pc = "persistBase"
  /\ UpdateBaseTable(i, inst[i])

\* persistUpdate's UPDATE of the extra table.
PersistExtra(i) ==
  /\ inst[i].pc = "persistExtra"
  /\ UpdateExtraTable(i, inst[i])

\* persistUpdate: INSERT INTO test_extra (record_id, ...) VALUES (?, ...).
\* A row inserted meanwhile makes the statement fail with a duplicate key,
\* and a statement with fewer or more parameters than placeholders is
\* rejected; the error leaves update before its events.
InsertExtra(i) ==
  /\ inst[i].pc = "insertExtra"
  /\ LET statement == ExtraInsertStatement(inst[i])
         inserted == InsertedValues(statement.values, statement.params)
         key == PrimaryKeyValue(inst[i])
         row == [c \in ExtraCols |->
                   IF \E k \in DOMAIN statement.columns : statement.columns[k] = c
                   THEN inserted[CHOOSE k \in DOMAIN statement.columns :
                                   statement.columns[k] = c]
                   ELSE ExtraTableDefaults[c]]
     IN IF Executable(statement) /\ key \in ExtraIds /\ ~dbExtra[key].exists
        THEN /\ dbExtra' = [dbExtra EXCEPT ![key] = [exists |-> TRUE, row |-> row]]
             /\ Becomes(i, inst[i],
                  [log |-> FireUpdate(inst[i], Logged(inst[i], "insertExtra")),
                   pc |-> "idle"])
        ELSE /\ dbExtra' = dbExtra
             /\ Becomes(i, inst[i],
                  [log |-> Append(Logged(inst[i], "insertExtra"), "throw"),
                   pc |-> "idle"])
  /\ UNCHANGED <<cacheEnabled, ctor, metaCache, dbBase, cache, casSeq>>

\* ------------------------------------------------------------------- delete
\* delete() on a loaded record up to and including its first statement,
\* DELETE FROM test_records WHERE id = ?.
Delete(i, timeoutSeconds) ==
  /\ Loaded(i)
  /\ dbBase' = NoRow
  /\ Becomes(i, inst[i], [op |-> "delete", timeout |-> timeoutSeconds,
                          data |-> EmptyPayload, update |-> EmptyPayload,
                          log |-> <<"deleteBase">>, pc |-> "deleteExtra"])
  /\ UNCHANGED <<cacheEnabled, ctor, metaCache, dbExtra, cache, casSeq>>

\* DELETE FROM test_extra WHERE record_id = ?, then fireEvent("delete") and
\* invalidateCache up to its Cache.del.
DeleteExtra(i) ==
  /\ inst[i].pc = "deleteExtra"
  /\ LET key == PrimaryKeyValue(inst[i])
     IN dbExtra' = IF key \in ExtraIds
                   THEN [dbExtra EXCEPT ![key] = NoRow] ELSE dbExtra
  /\ Becomes(i, inst[i],
       [log |-> Append(Logged(inst[i], "deleteExtra"), "event:delete"),
        pc |-> IF cacheEnabled THEN "cacheDel" ELSE "idle"])
  /\ UNCHANGED <<cacheEnabled, ctor, metaCache, dbBase, cache, casSeq>>

\* invalidateCache whose Cache.del removes nothing (the mutant).
CacheDelKeepingEntry(i) ==
  /\ inst[i].pc = "cacheDel"
  /\ Becomes(i, inst[i],
       [log |-> Logged(inst[i], "del"),
        pc |-> IF inst[i].timeout > 0 THEN "addSentinel" ELSE "idle"])
  /\ UNCHANGED <<cacheEnabled, ctor, metaCache, dbBase, dbExtra, cache, casSeq>>

\* invalidateCache removing the entry only for an instance that holds a
\* CAS token (the mutant).
CacheDelOnlyWithToken(i) ==
  /\ inst[i].pc = "cacheDel"
  /\ cache' = IF inst[i].casToken # 0 THEN NoEntry ELSE cache
  /\ Becomes(i, inst[i],
       [log |-> IF inst[i].casToken # 0 THEN Logged(inst[i], "del")
                ELSE inst[i].log,
        pc |-> IF inst[i].timeout > 0 THEN "addSentinel" ELSE "idle"])
  /\ UNCHANGED <<cacheEnabled, ctor, metaCache, dbBase, dbExtra, casSeq>>

\* invalidateCache: Cache.del.
CacheDel(i) ==
  /\ inst[i].pc = "cacheDel"
  /\ cache' = NoEntry
  /\ Becomes(i, inst[i],
       [log |-> Logged(inst[i], "del"),
        pc |-> IF inst[i].timeout > 0 THEN "addSentinel" ELSE "idle"])
  /\ UNCHANGED <<cacheEnabled, ctor, metaCache, dbBase, dbExtra, casSeq>>

\* invalidateCache adding the sentinel with the TTL of a payload (the
\* mutant).
AddSentinelWithPayloadTtl(i) ==
  /\ inst[i].pc = "addSentinel"
  /\ IF cache.kind = "none"
       THEN /\ cache' = Stored("sentinel", EmptyPayload)
            /\ casSeq' = casSeq + 1
       ELSE UNCHANGED <<cache, casSeq>>
  /\ Becomes(i, inst[i], [log |-> Logged(inst[i], "add"), pc |-> "idle"])
  /\ UNCHANGED <<cacheEnabled, ctor, metaCache, dbBase, dbExtra>>

\* invalidateCache: Cache.add of DELETED_SENTINEL with the timeout as TTL.
AddSentinel(i) ==
  /\ inst[i].pc = "addSentinel"
  /\ IF cache.kind = "none"
       THEN /\ cache' = [Stored("sentinel", EmptyPayload)
                          EXCEPT !.ttl = inst[i].timeout]
            /\ casSeq' = casSeq + 1
       ELSE UNCHANGED <<cache, casSeq>>
  /\ Becomes(i, inst[i], [log |-> Logged(inst[i], "add"), pc |-> "idle"])
  /\ UNCHANGED <<cacheEnabled, ctor, metaCache, dbBase, dbExtra>>

\* ------------------------------------------------------------ readExtraData
\* readExtraData without its look at extraTableRead (the mutant).
ReadExtraDataEveryTime(i) ==
  /\ Loaded(i)
  /\ LET self == Assign(inst[i], [op |-> "readExtra", data |-> EmptyPayload,
                                  update |-> EmptyPayload, log |-> <<>>])
         key == PrimaryKeyValue(self)
         found == key \in ExtraIds /\ dbExtra[key].exists
         payload == IF found THEN Remove(dbExtra[key].row, {ExtraPrimaryKey})
                    ELSE ExtraTableDefaults
         update == Assign(payload, [extraTableRead |-> "true"])
         merged == Assign(self.record, update)
     IN IF ~cacheEnabled \/ self.casToken = 0
        THEN Becomes(i, self, [record |-> merged, update |-> update,
                               log |-> <<"selectExtra">>, pc |-> "idle"])
        ELSE Becomes(i, self, [record |-> merged, update |-> update,
                               casRecord |-> merged, casArg |-> self.casToken,
                               attempt |-> 1,
                               log |-> <<"selectExtra">>, pc |-> "cas"])
  /\ UNCHANGED <<cacheEnabled, ctor, metaCache, dbBase, dbExtra, cache, casSeq>>

\* readExtraData on a loaded record: nothing when the payload says the extra
\* table was read; else SELECT * FROM test_extra WHERE <extraPrimary> = ?,
\* the row without its key column, or the column defaults, merged with extraTableRead
\* = true into this.record, then updateCache with that update up to its cas.
ReadExtraData(i) ==
  /\ Loaded(i)
  /\ LET self == Assign(inst[i], [op |-> "readExtra", data |-> EmptyPayload,
                                  update |-> EmptyPayload, log |-> <<>>])
         extraPrimary == GetExtraPrimaryKeyStatic(ctor)
         key == PrimaryKeyValue(self)
         found == key \in ExtraIds /\ dbExtra[key].exists
         payload == IF found THEN Remove(dbExtra[key].row, {extraPrimary})
                    ELSE ExtraTableFields(ctor)
         update == Assign(payload, [extraTableRead |-> "true"])
         merged == Assign(self.record, update)
     IN IF Get(self.record, "extraTableRead") = "true"
        THEN Becomes(i, self, [pc |-> "idle"])
        ELSE IF ~cacheEnabled \/ self.casToken = 0
        THEN Becomes(i, self, [record |-> merged, update |-> update,
                               log |-> <<"selectExtra">>, pc |-> "idle"])
        ELSE Becomes(i, self, [record |-> merged, update |-> update,
                               casRecord |-> merged, casArg |-> self.casToken,
                               attempt |-> 1,
                               log |-> <<"selectExtra">>, pc |-> "cas"])
  /\ UNCHANGED <<cacheEnabled, ctor, metaCache, dbBase, dbExtra, cache, casSeq>>

\* ---------------------------------------------------------------- isInCache
\* isInCache: false without cache; else Cache.get of the record's key, and
\* true for whatever value the key holds. The call takes the first free
\* slot for what it returns.
IsInCache(i) ==
  /\ inst[i].pc = "none"
  /\ \A j \in Inst : j < i => inst[j].pc # "none"
  /\ Becomes(i, Assign(NoInstance, [op |-> "isInCache", seq |-> ops + 1]),
             IF ~cacheEnabled
             THEN [returned |-> FALSE, pc |-> "returned"]
             ELSE [returned |-> cache.kind # "none", found |-> cache,
                   log |-> <<"get">>, pc |-> "returned"])
  /\ UNCHANGED <<cacheEnabled, ctor, metaCache, dbBase, dbExtra, cache, casSeq>>

\* ------------------------------------------------------------------- insert
\* buildInsertFragments sending every field of the data to the base table
\* (the mutant).
BuildInsertFragmentsKeepingAll(data, extraFields) == data

\* buildInsertFragments: the fields of the data that are no extra-table
\* fields are the columns of the base INSERT.
BuildInsertFragments(data, extraFields) == Remove(data, extraFields)

\* The row the base INSERT creates: the columns it carries; the id, when not
\* carried, is generated (the generated id is the key under watch), and any
\* other column takes its default, the empty string.
InsertedRow(columns) ==
  [c \in BaseCols \cup DOMAIN columns |->
     IF c \in DOMAIN columns THEN columns[c]
     ELSE IF c = "id" THEN KeyId ELSE ""]

\* buildKeyValuesFromInsert throws: the key is composite and the data lacks
\* one of its fields.
MissingCompositeKey(data) ==
  /\ Len(ctor.primaryKey) # 1
  /\ \E k \in DOMAIN ctor.primaryKey : ctor.primaryKey[k] \notin DOMAIN data

\* insert going on to buildKeyValuesFromInsert and load whatever insertId
\* the base INSERT returned (the mutant).
InsertBaseRowIgnoringId(i, self, insertId) ==
  LET columns == BuildInsertFragments(self.data, DOMAIN ExtraTableDefaults)
      log == Logged(self, "insertBase")
  IN IF dbBase.exists
     THEN /\ Becomes(i, self, [log |-> Append(log, "throw"), pc |-> "failed"])
          /\ UNCHANGED <<cacheEnabled, ctor, metaCache, dbBase, dbExtra,
                         cache, casSeq>>
     ELSE /\ dbBase' = [exists |-> TRUE, row |-> InsertedRow(columns)]
          /\ IF MissingCompositeKey(self.data)
             THEN /\ Becomes(i, self, [insertId |-> insertId,
                                       log |-> Append(log, "throw:compositeKey"),
                                       pc |-> "failed"])
                  /\ UNCHANGED ctor
             ELSE Resolved(i, Assign(self, [insertId |-> insertId,
                                            forceRead |-> TRUE, log |-> log]),
                           FromMetadata(ctor))
          /\ UNCHANGED <<cacheEnabled, metaCache, dbExtra, cache, casSeq>>

\* insert from its base INSERT to the first adapter call of the forced load:
\* the INSERT (a row of that key already there makes it fail with a
\* duplicate key); insert returns null when the result carries no insertId;
\* else buildKeyValuesFromInsert, then load with forceRead.
InsertBaseRow(i, self, insertId) ==
  LET columns == BuildInsertFragments(self.data, DOMAIN ExtraTableDefaults)
      log == Logged(self, "insertBase")
  IN IF dbBase.exists
     THEN /\ Becomes(i, self, [log |-> Append(log, "throw"), pc |-> "failed"])
          /\ UNCHANGED <<cacheEnabled, ctor, metaCache, dbBase, dbExtra,
                         cache, casSeq>>
     ELSE /\ dbBase' = [exists |-> TRUE, row |-> InsertedRow(columns)]
          /\ IF insertId = Undefined
             THEN /\ Becomes(i, self, [insertId |-> insertId,
                                       log |-> Append(log, "return:null"),
                                       pc |-> "failed"])
                  /\ UNCHANGED ctor
             ELSE IF MissingCompositeKey(self.data)
             THEN /\ Becomes(i, self, [insertId |-> insertId,
                                       log |-> Append(log, "throw:compositeKey"),
                                       pc |-> "failed"])
                  /\ UNCHANGED ctor
             ELSE Resolved(i, Assign(self, [insertId |-> insertId,
                                            forceRead |-> TRUE, log |-> log]),
                           FromMetadata(ctor))
          /\ UNCHANGED <<cacheEnabled, metaCache, dbExtra, cache, casSeq>>

\* DatabaseRecord.insert up to and including its first adapter call: the
\* read of the metadata entry, SHOW COLUMNS, or, with the metadata resolved,
\* the base INSERT. getTableNameStatic throws for a type without table
\* name. The instance insert returns takes the first free slot. emitEvent
\* is the option of the call, insertId what the base INSERT returns when it
\* is executed in this step.
Insert(i, data, emitEvent, insertId) ==
  /\ inst[i].pc = "none"
  /\ \A j \in Inst : j < i => inst[j].pc # "none"
  /\ LET self == Assign(NoInstance, [op |-> "insert", data |-> data,
                                     emitEvent |-> emitEvent,
                                     seq |-> ops + 1])
         r == FromInsertMetadata(ctor)
     IN IF ctor.tableName = ""
        THEN /\ Becomes(i, self, [log |-> <<"throw:tableName">>,
                                  pc |-> "failed"])
             /\ UNCHANGED <<cacheEnabled, ctor, metaCache, dbBase, dbExtra,
                            cache, casSeq>>
        ELSE IF r.pc = "done" /\ r.ctor = ctor
        THEN InsertBaseRow(i, Assign(self, [metadata |-> r.metadata]), insertId)
        ELSE /\ Resolved(i, self, r)
             /\ UNCHANGED <<cacheEnabled, metaCache, dbBase, dbExtra, cache,
                            casSeq>>

\* insert's base INSERT after the metadata was resolved.
InsertBase(i, insertId) ==
  /\ inst[i].pc = "insertBase"
  /\ InsertBaseRow(i, inst[i], insertId)

\* insert's INSERT INTO test_extra (record_id, ...) VALUES (?, ...), keyed by
\* instance.getPrimaryKeyValue(), then the insert event.
InsertExtraRow(i) ==
  /\ inst[i].pc = "insertExtraRow"
  /\ LET data == inst[i].data
         key == PrimaryKeyValue(inst[i])
         row == [c \in ExtraCols |->
                   IF c = ExtraPrimaryKey THEN key
                   ELSE IF c \in ExtraAssignments(data) THEN data[c]
                   ELSE ExtraTableDefaults[c]]
     IN IF key \in ExtraIds /\ ~dbExtra[key].exists
        THEN /\ dbExtra' = [dbExtra EXCEPT ![key] = [exists |-> TRUE, row |-> row]]
             /\ Becomes(i, inst[i],
                  [log |-> IF inst[i].emitEvent
                           THEN Append(Logged(inst[i], "insertExtra"), "event:insert")
                           ELSE Logged(inst[i], "insertExtra"),
                   pc |-> "idle"])
        ELSE /\ dbExtra' = dbExtra
             /\ Becomes(i, inst[i],
                  [log |-> Append(Logged(inst[i], "insertExtra"), "throw"),
                   pc |-> "failed"])
  /\ UNCHANGED <<cacheEnabled, ctor, metaCache, dbBase, cache, casSeq>>

\* load with empty key values: the constructor throws (validateKeyValues)
\* ahead of anything else.
LoadWithoutKey(i) ==
  /\ inst[i].pc = "none"
  /\ \A j \in Inst : j < i => inst[j].pc # "none"
  /\ Becomes(i, Assign(NoInstance, [op |-> "load", seq |-> ops + 1]),
             [log |-> <<"throw:keyValues">>, pc |-> "failed"])
  /\ UNCHANGED <<cacheEnabled, ctor, metaCache, dbBase, dbExtra, cache, casSeq>>

\* ---------------------------------------------------------------- cache key
\* In this section a string is the sequence of its characters, so that
\* toLowerCase, String and join do to it what they do in the code. A key
\* mapping is the sequence of its entries <<field, value>> in the order of
\* Object.entries; a value is a string or a number and carries its type.
Str(chars) == <<"string", chars>>
Num(n) == <<"number", n>>

\* toLowerCase of a character.
LowerChar(c) ==
  CASE c = "A" -> "a" [] c = "B" -> "b" [] c = "D" -> "d" [] c = "G" -> "g"
    [] c = "I" -> "i" [] c = "T" -> "t" [] OTHER -> c

\* String.prototype.toLowerCase.
ToLowerCase(str) == [k \in DOMAIN str |-> LowerChar(str[k])]

\* String(value): a string is itself, a number its decimal digits.
StringOf(value) ==
  IF value[1] = "number"
  THEN IF value[2] < 10 THEN <<ToString(value[2])>>
       ELSE <<ToString(value[2] \div 10), ToString(value[2] % 10)>>
  ELSE value[2]

\* Array.prototype.join.
RECURSIVE Join(_, _)
Join(fragments, separator) ==
  IF Len(fragments) = 0 THEN <<>>
  ELSE IF Len(fragments) = 1 THEN fragments[1]
  ELSE fragments[1] \o separator \o Join(Tail(fragments), separator)

\* Configuration.getDatabaseConfig().database and the table name of the
\* tests.
DatabaseName == <<"f", "o", "o", "d", "e", "r", "i", "f", "i", "c">>
TableName == <<"t", "e", "s", "t", "_", "r", "e", "c", "o", "r", "d", "s">>

\* makeCacheKey lower-casing the field names only (the mutant).
MakeCacheKeyKeepingValueCase(keyValues) ==
  Join(<< <<"V", "4">> \o DatabaseName \o <<".">> \o TableName >> \o
         [k \in DOMAIN keyValues |->
            ToLowerCase(keyValues[k][1]) \o <<".">> \o StringOf(keyValues[k][2])],
       <<".">>)

\* makeCacheKey: the fragments "V4<database>.<table>" and, for each entry,
\* "<field in lower case>.<String(value) in lower case>", joined by ".".
MakeCacheKey(keyValues) ==
  Join(<< <<"V", "4">> \o DatabaseName \o <<".">> \o TableName >> \o
         [k \in DOMAIN keyValues |->
            ToLowerCase(keyValues[k][1]) \o <<".">> \o
              ToLowerCase(StringOf(keyValues[k][2]))],
       <<".">>)

\* The constructor: validateKeyValues, then this.keyValues and
\* this.cacheKey = makeCacheKey(keyValues). The instance is not initialised
\* yet.
Construct(i, keyValues) ==
  /\ inst[i].pc = "none"
  /\ \A j \in Inst : j < i => inst[j].pc # "none"
  /\ IF Len(keyValues) = 0
       THEN Becomes(i, Assign(NoInstance, [op |-> "load", seq |-> ops + 1]),
                    [log |-> <<"throw:keyValues">>, pc |-> "failed"])
       ELSE Becomes(i, Assign(NoInstance, [op |-> "load", seq |-> ops + 1]),
                    [keyValues |-> keyValues,
                     cacheKey |-> MakeCacheKey(keyValues),
                     pc |-> "constructed"])
  /\ UNCHANGED <<cacheEnabled, ctor, metaCache, dbBase, dbExtra, cache, casSeq>>

\* ----------------------------------------------------------------- EventBus
\* An EventBus of its own (new EventBus()), apart from the bus the records
\* emit on, which has no listener here. Its emitter keeps, for each event,
\* the array of its listeners in the order they were added, each with the
\* mark of a once listener; a listener added twice is in it twice.
\* disposers are the functions on has returned, each for its event and
\* listener. trace is the history of the calls on the bus: for an emit the
\* listeners it invoked, in order, and for every other call the number of
\* times the listener was in the array before it.
BusEvents == {"event", "invalidate"}
BusListeners == {"listener"}
NoBus ==
  [listeners |-> [e \in BusEvents |-> <<>>], disposers |-> {}, trace |-> <<>>]

\* How often a listener is in an array of listeners.
Registrations(list, listener) ==
  Cardinality({k \in DOMAIN list : list[k].fn = listener})

\* emitter.removeListener taking only a once listener away (the mutant).
RemoveListenerOnceOnly(list, listener) ==
  IF \E k \in DOMAIN list : list[k].fn = listener /\ ~list[k].once
  THEN list
  ELSE SelectSeq(list, LAMBDA l : l.fn # listener)

\* emitter.removeListener: the array without the last-added entry of the
\* listener, if it has one.
RemoveListener(list, listener) ==
  LET at == {k \in DOMAIN list : list[k].fn = listener}
  IN IF at = {} THEN list
     ELSE LET last == CHOOSE k \in at : \A m \in at : m <= k
          IN [k \in 1..(Len(list) - 1) |->
                IF k < last THEN list[k] ELSE list[k + 1]]

\* The history with a call added.
Traced(call, event, listener, invoked) ==
  Append(bus.trace,
    [call |-> call, event |-> event, fn |-> listener, invoked |-> invoked,
     held |-> Registrations(bus.listeners[event], listener)])

\* on: emitter.on appends the listener; the disposer is returned.
On(event, listener) ==
  bus' = [listeners |-> [bus.listeners EXCEPT ![event] =
                           Append(@, [fn |-> listener, once |-> FALSE])],
          disposers |-> bus.disposers \cup {<<event, listener>>},
          trace |-> Traced("on", event, listener, <<>>)]

\* once: emitter.once appends the listener with the mark.
Once(event, listener) ==
  bus' = [listeners |-> [bus.listeners EXCEPT ![event] =
                           Append(@, [fn |-> listener, once |-> TRUE])],
          disposers |-> bus.disposers,
          trace |-> Traced("once", event, listener, <<>>)]

\* off: emitter.off, which is removeListener.
Off(event, listener) ==
  bus' = [listeners |-> [bus.listeners EXCEPT ![event] =
                           RemoveListener(@, listener)],
          disposers |-> bus.disposers,
          trace |-> Traced("off", event, listener, <<>>)]

\* A disposer on returned is called: emitter.off of its event and listener.
Dispose(event, listener) ==
  /\ <<event, listener>> \in bus.disposers
  /\ bus' = [listeners |-> [bus.listeners EXCEPT ![event] =
                              RemoveListener(@, listener)],
             disposers |-> bus.disposers,
             trace |-> Traced("dispose", event, listener, <<>>)]

\* emit: every listener of the event is invoked, in order; the once
\* listeners leave the array as they are invoked.
Emit(event) ==
  bus' = [listeners |-> [bus.listeners EXCEPT ![event] =
                           SelectSeq(@, LAMBDA l : ~l.once)],
          disposers |-> bus.disposers,
          trace |-> Traced("emit", event, "",
                      [k \in DOMAIN bus.listeners[event] |->
                         bus.listeners[event][k].fn])]

\* ------------------------------------------------------------- dependencies
\* Where the maps themselves are under study, a map is [set, map]: whether
\* the field is defined, and the map from a field to a set of fields. The
\* record type carries the map it declares (declared, never assigned), its
\* static fields dependencies (the declared map at first) and derivedFields
\* and the memo of the metadata; the metadata entry of the cache carries
\* its dependencies, and the instance the map it uses (dependencies).
NoMap == [set |-> FALSE, map |-> <<>>]
MapOf(map) == [set |-> TRUE, map |-> map]

\* getMetadata with the cache enabled: the memo, else the entry of the
\* cache, else the empty metadata.
MetadataOf(c, entry) ==
  IF c.metadata.set THEN c.metadata
  ELSE IF entry.exists THEN [set |-> TRUE, dependencies |-> entry.dependencies]
  ELSE [set |-> TRUE, dependencies |-> NoMap]

\* resolveDependencies taking the map of the metadata before the static
\* map (the mutant).
ResolvedDependenciesCachedFirst(c, metadata) ==
  IF metadata.dependencies.set
  THEN [used |-> metadata.dependencies, static |-> metadata.dependencies,
        cached |-> FALSE]
  ELSE IF c.dependencies.set /\ DOMAIN c.dependencies.map # {}
  THEN [used |-> c.dependencies, static |-> c.dependencies, cached |-> FALSE]
  ELSE LET dependencies == MapOf(ResolveDependencies(c.derivedFields.map))
       IN [used |-> dependencies, static |-> dependencies, cached |-> TRUE]

\* resolveDependencies: the static map when it has a key; else the map of
\* the metadata, which becomes the static map; else the derived fields
\* inverted, which become the static map and are handed to cacheMetadata
\* with the metadata. used is the map returned, static the static map
\* left, cached whether cacheMetadata is called.
ResolvedDependencies(c, metadata) ==
  IF c.dependencies.set /\ DOMAIN c.dependencies.map # {}
  THEN [used |-> c.dependencies, static |-> c.dependencies, cached |-> FALSE]
  ELSE IF metadata.dependencies.set
  THEN [used |-> metadata.dependencies, static |-> metadata.dependencies,
        cached |-> FALSE]
  ELSE IF ~c.derivedFields.set
  THEN [used |-> MapOf(<<>>), static |-> c.dependencies, cached |-> FALSE]
  ELSE LET dependencies == MapOf(ResolveDependencies(c.derivedFields.map))
       IN [used |-> dependencies, static |-> dependencies, cached |-> TRUE]

\* initialise: getMetadata, then this.dependencies: resolveDependencies for
\* a type with derived fields, else the static map if there is one, else
\* none.
InitialiseDependencies(c, entry) ==
  LET metadata == MetadataOf(c, entry)
  IN IF c.derivedFields.set
     THEN ResolvedDependencies(c, metadata)
     ELSE [used |-> c.dependencies, static |-> c.dependencies, cached |-> FALSE]

\* A load as far as the dependencies of its instance: the memo of the
\* metadata and the static map are left as resolved, and the metadata
\* entry as getMetadata's Cache.add or cacheMetadata's Cache.set leaves it.
LoadDependencies(i) ==
  /\ inst[i].pc = "none"
  /\ \A j \in Inst : j < i => inst[j].pc # "none"
  /\ LET metadata == MetadataOf(ctor, metaCache)
         r == InitialiseDependencies(ctor, metaCache)
         resolved == IF r.cached THEN [set |-> TRUE, dependencies |-> r.used]
                     ELSE metadata
     IN /\ ctor' = [ctor EXCEPT !.dependencies = r.static, !.metadata = resolved]
        /\ metaCache' = IF r.cached \/ ~metaCache.exists
                          THEN [exists |-> TRUE, dependencies |-> resolved.dependencies]
                          ELSE metaCache
        /\ Becomes(i, Assign(NoInstance, [op |-> "load", seq |-> ops + 1]),
                   [dependencies |-> r.used, pc |-> "idle"])
  /\ UNCHANGED <<cacheEnabled, dbBase, dbExtra, cache, casSeq>>

\* -------------------------------------------------------------- environment
\* The entry's TTL elapses (or the cache is flushed): FakeMemcached drops
\* an entry whose expiresAt has passed.
Expire ==
  /\ cache.kind # "none"
  /\ cache' = NoEntry
  /\ UNCHANGED <<cacheEnabled, ctor, metaCache, dbBase, dbExtra, casSeq, inst>>

\* ------------------------------------------------------------ specification
\* The payload a load of the initial row caches.
InitialPayload == DecorateRecord(InitialRow)

\* The general specification: instances are loaded, then update, delete and
\* read the extra table, in any interleaving of their adapter calls. The
\* cache starts empty or holding the payload an earlier process cached.
Init ==
  /\ cacheEnabled \in BOOLEAN
  /\ ctor = ResolvedType(TestRecord)
  /\ metaCache = IF cacheEnabled THEN ResolvedMetaEntry ELSE NoMetaEntry
  /\ dbBase = [exists |-> TRUE, row |-> InitialRow]
  /\ dbExtra \in {[k \in ExtraIds |-> NoRow],
                  [k \in ExtraIds |-> IF k = KeyId
                      THEN [exists |-> TRUE, row |-> InitialExtraRow] ELSE NoRow]}
  /\ \/ cache = NoEntry /\ casSeq = 1
     \/ /\ cacheEnabled
        /\ cache = [kind |-> "object", value |-> InitialPayload, cas |-> 1,
                    ttl |-> DEFAULT_CACHE_EXPIRATION]
        /\ casSeq = 2
  /\ inst = [i \in 1..NumInst |-> NoInstance]
  /\ ops = 0
  /\ overlap = FALSE
  /\ bus = NoBus

\* Some call is in progress.
Busy == \E i \in Inst : inst[i].pc \notin {"none", "idle", "failed", "returned"}

\* A call or an expiry takes one of the MaxOps operations of a behaviour.
Call ==
  ops < MaxOps /\ ops' = ops + 1 /\ overlap' = (overlap \/ Busy) /\ UNCHANGED bus

\* A later adapter call of a call in progress.
Step == UNCHANGED <<ops, overlap, bus>>

Next ==
  \/ \E i \in Inst, force \in BOOLEAN : Call /\ Load(i, force)
  \/ \E i \in Inst, data \in UpdateInputs : Call /\ Update(i, data)
  \/ \E i \in Inst, t \in DeleteTimeouts : Call /\ Delete(i, t)
  \/ \E i \in Inst : Call /\ ReadExtraData(i)
  \/ \E i \in Inst : Step /\ LoadSelect(i)
  \/ \E i \in Inst : Step /\ LoadWrite(i)
  \/ \E i \in Inst : Step /\ LoadRefresh(i)
  \/ \E i \in Inst : Step /\ CasAttempt(i)
  \/ \E i \in Inst : Step /\ CasRefreshStored(i)
  \/ \E i \in Inst : Step /\ CasRefreshFailed(i)
  \/ \E i \in Inst : Step /\ PersistBase(i)
  \/ \E i \in Inst : Step /\ PersistExtra(i)
  \/ \E i \in Inst : Step /\ InsertExtra(i)
  \/ \E i \in Inst : Step /\ DeleteExtra(i)
  \/ \E i \in Inst : Step /\ CacheDel(i)
  \/ \E i \in Inst : Step /\ AddSentinel(i)
  \/ Call /\ Expire

Spec == Init /\ [][Next]_vars

\* -------------------------------------------------- contention specification
\* N instances that loaded the record from the cache each call update once,
\* each on a field of its own, in any interleaving of their cache calls.
\* An instance that loaded before another process merged the extra table
\* into the entry holds the earlier payload and a token no longer current.
Updaters == 2..MAX_CAS_ATTEMPTS

UpdaterField(i) ==
  IF i = 1 THEN "name" ELSE IF i = 2 THEN "note" ELSE IF i = 3 THEN "qty"
  ELSE IF i = 4 THEN "tag" ELSE "rank"

CurrentPayload ==
  Assign(InitialPayload, [note |-> "a", extraTableRead |-> "true"])

\* The entry the cache holds when the updates begin.
CurrentEntry ==
  [kind |-> "object", value |-> CurrentPayload, cas |-> 2,
   ttl |-> DEFAULT_CACHE_EXPIRATION]

\* An instance as a non-forced load leaves it after a cache hit.
LoadedFromCache(payload, token) ==
  Assign(NoInstance, [pc |-> "idle", op |-> "load", hasRecord |-> TRUE,
                      metadata |-> MetadataKeys,
                      record |-> payload, casToken |-> token, inCache |-> TRUE,
                      loadedCas |-> token, log |-> <<"gets">>])

\* The instances whose token is no longer current: none, one, or all of
\* them (with MAX_CAS_ATTEMPTS updaters one such token already lets an update
\* run out of attempts).
StaleSets(n) == IF n < MAX_CAS_ATTEMPTS THEN {{}, {1}, 1..n} ELSE {{}, {1}}

InitCas ==
  /\ cacheEnabled = TRUE
  /\ ctor = ResolvedType(TestRecord)
  /\ metaCache = ResolvedMetaEntry
  /\ dbBase = [exists |-> TRUE, row |-> InitialRow]
  /\ dbExtra = [k \in ExtraIds |-> IF k = KeyId
                  THEN [exists |-> TRUE, row |-> InitialExtraRow] ELSE NoRow]
  /\ cache = CurrentEntry
  /\ casSeq = CurrentEntry.cas + 1
  /\ ops = 0
  /\ overlap = FALSE
  /\ bus = NoBus
  /\ \E n \in Updaters :
       \E stale \in StaleSets(n) :
         inst = [i \in 1..n |->
                   IF i \in stale
                   THEN LoadedFromCache(InitialPayload, CurrentEntry.cas - 1)
                   ELSE LoadedFromCache(CurrentPayload, CurrentEntry.cas)]

\* The steps of an update after its last cas: the re-read that follows a
\* successful cas and the SQL statements. In this specification they read
\* and write nothing a step of another instance depends on (the re-read
\* changes the instance alone, which never acts again; the statements set
\* columns no updater reads), so they commute with the steps of the others
\* and are taken before any other instance moves. The interleavings left
\* are those of the cas calls and of the re-reads that follow a failed cas.
InTail(i) == inst[i].pc \in {"casStored", "persistBase", "persistExtra"}
Turn(i) == \A j \in Inst : j # i => ~InTail(j)

NextCas ==
  \/ \E i \in Inst :
       /\ inst[i].op = "load"
       /\ Turn(i)
       /\ Update(i, [f \in {UpdaterField(i)} |-> "b"])
       /\ Step
  \/ \E i \in Inst : Turn(i) /\ Step /\ CasAttempt(i)
  \/ \E i \in Inst : Turn(i) /\ Step /\ CasRefreshStored(i)
  \/ \E i \in Inst : Turn(i) /\ Step /\ CasRefreshFailed(i)
  \/ \E i \in Inst : Turn(i) /\ Step /\ PersistBase(i)
  \/ \E i \in Inst : Turn(i) /\ Step /\ PersistExtra(i)

SpecCas == InitCas /\ [][NextCas]_vars

\* ------------------------------------------------------- retry specification
\* One instance that loaded the record from the cache updates a field or
\* reads the extra table while other processes write the key or let it
\* expire, at any moment and up to MaxWrites times.
InitRetry ==
  /\ cacheEnabled = TRUE
  /\ ctor = ResolvedType(TestRecord)
  /\ metaCache = ResolvedMetaEntry
  /\ dbBase = [exists |-> TRUE, row |-> InitialRow]
  /\ dbExtra = [k \in ExtraIds |-> IF k = KeyId
                  THEN [exists |-> TRUE, row |-> InitialExtraRow] ELSE NoRow]
  /\ cache = CurrentEntry
  /\ casSeq = CurrentEntry.cas + 1
  /\ ops = 0
  /\ overlap = FALSE
  /\ bus = NoBus
  /\ inst \in {<<LoadedFromCache(InitialPayload, CurrentEntry.cas - 1)>>,
               <<LoadedFromCache(CurrentPayload, CurrentEntry.cas)>>}

\* Another process stores a payload under the key (Cache.set, or a cas or add
\* of its own that succeeds): the entry takes a new unique.
OtherWrite ==
  /\ cache' = Stored("object",
                IF IsObject(cache) THEN Assign(cache.value, [tag |-> "b"])
                ELSE CurrentPayload)
  /\ casSeq' = casSeq + 1
  /\ UNCHANGED <<cacheEnabled, ctor, metaCache, dbBase, dbExtra, inst>>

\* A write or an expiry by the environment takes one of its MaxWrites turns.
Interference ==
  /\ ops < MaxWrites /\ ops' = ops + 1 /\ overlap' = (overlap \/ Busy)
  /\ UNCHANGED bus

\* The adapter calls of the call in progress after its first.
RetrySteps ==
  \/ \E i \in Inst : Step /\ CasAttempt(i)
  \/ \E i \in Inst : Step /\ CasRefreshStored(i)
  \/ \E i \in Inst : Step /\ CasRefreshFailed(i)
  \/ \E i \in Inst : Step /\ PersistBase(i)
  \/ \E i \in Inst : Step /\ PersistExtra(i)

NextRetry ==
  \/ \E i \in Inst, data \in {[name |-> "b"], [note |-> "b"]} :
       inst[i].op = "load" /\ Update(i, data) /\ Step
  \/ \E i \in Inst : inst[i].op = "load" /\ ReadExtraData(i) /\ Step
  \/ RetrySteps
  \/ Interference /\ OtherWrite
  \/ Interference /\ Expire

\* Every adapter call returns and its caller goes on (the environment may
\* stop or go on as it likes).
SpecRetry == InitRetry /\ [][NextRetry]_vars /\ WF_vars(RetrySteps)

\* ------------------------------------------------------------------- faults
\* A cache adapter call rejects (a transport failure). The call rejecting
\* is the one instance i is about to make; what follows is the catch block
\* around it, or, where there is none, the error leaving the operation:
\* getMetadata awaits Cache.get and Cache.add outside any try.
CacheFault(i) ==
  /\ cacheEnabled
  /\ LET self == Assign(inst[i], [log |-> Logged(inst[i], "fault:cache")])
         pc == inst[i].pc
     IN /\ pc \in {"getMetadata", "metaAdd", "cacheDependencies",
                   "cacheExtraFields", "write", "refresh", "cas", "casStored",
                   "casFailed", "cacheDel", "addSentinel"}
        /\ IF pc \in {"getMetadata", "metaAdd"}
           THEN /\ Becomes(i, self, [log |-> Logged(self, "throw"),
                                     pc |-> "failed"])
                /\ UNCHANGED ctor
           ELSE IF pc = "cacheDependencies"
           THEN Resolved(i, self, FromExtraFields(ctor, self.metadata))
           ELSE IF pc = "cacheExtraFields"
           THEN Becomes(i, self, [pc |-> DonePc(self)]) /\ UNCHANGED ctor
           ELSE IF pc \in {"write", "refresh"}
           THEN /\ Becomes(i, self, Assign([inCache |-> FALSE],
                                           AfterLoad(self, self.log)))
                /\ UNCHANGED ctor
           ELSE IF pc \in {"cas", "casStored", "casFailed"}
           THEN /\ Becomes(i, self, [pc |-> AfterUpdateCache(self)])
                /\ UNCHANGED ctor
           ELSE Becomes(i, self, [pc |-> "idle"]) /\ UNCHANGED ctor
  /\ UNCHANGED <<cacheEnabled, metaCache, dbBase, dbExtra, cache, casSeq>>

\* A non-forced load whose Cache.gets rejects: tryLoadFromCache logs the
\* error and initialise goes on as after a miss.
LoadCacheFault(i) ==
  /\ cacheEnabled
  /\ inst[i].pc = "none"
  /\ \A j \in Inst : j < i => inst[j].pc # "none"
  /\ Resolved(i, Assign(NoInstance, [op |-> "load", seq |-> ops + 1,
                                      log |-> <<"fault:cache">>]),
              FromMetadata(ctor))
  /\ UNCHANGED <<cacheEnabled, metaCache, dbBase, dbExtra, cache, casSeq>>

\* An update whose first Cache.cas rejects: performCasUpdate logs the error
\* and update goes on to persistUpdate.
UpdateCacheFault(i, data) ==
  /\ Loaded(i)
  /\ cacheEnabled /\ inst[i].casToken # 0
  /\ LET sanitized == SanitiseUpdatePayload(inst[i].record, data)
     IN /\ DOMAIN sanitized # {}
        /\ Becomes(i, inst[i], [op |-> "update", data |-> data,
                                update |-> sanitized,
                                log |-> <<"fault:cache">>,
                                pc |-> PersistPc(sanitized)])
  /\ UNCHANGED <<cacheEnabled, ctor, metaCache, dbBase, dbExtra, cache, casSeq>>

\* A database statement that swallows its error and goes on (the mutant):
\* delete continuing with its event and the invalidation.
DbFaultSwallowed(i) ==
  /\ inst[i].pc \in {"select", "showColumns", "persistBase", "persistExtra",
                     "insertExtra", "deleteExtra"}
  /\ Becomes(i, inst[i],
       [log |-> Append(Logged(inst[i], "fault:db"), "event:" \o inst[i].op),
        pc |-> IF inst[i].op = "delete" /\ cacheEnabled THEN "cacheDel"
               ELSE IF inst[i].op = "load" THEN "failed" ELSE "idle"])
  /\ UNCHANGED <<cacheEnabled, ctor, metaCache, dbBase, dbExtra, cache, casSeq>>

\* A database statement rejects. The statement is the one instance i is
\* about to execute; nothing in the engine catches the error, which leaves
\* the operation: a load returns no instance, update and delete end where
\* they are.
DbFault(i) ==
  /\ inst[i].pc \in {"select", "showColumns", "persistBase", "persistExtra",
                     "insertExtra", "deleteExtra"}
  /\ Becomes(i, inst[i],
       [log |-> Append(Logged(inst[i], "fault:db"), "throw"),
        pc |-> IF inst[i].op = "load" THEN "failed" ELSE "idle"])
  /\ UNCHANGED <<cacheEnabled, ctor, metaCache, dbBase, dbExtra, cache, casSeq>>

\* An update without cache or token whose first UPDATE rejects: the fields
\* are merged in memory, the error leaves update.
UpdateDbFault(i, data) ==
  /\ Loaded(i)
  /\ ~cacheEnabled \/ inst[i].casToken = 0
  /\ LET sanitized == SanitiseUpdatePayload(inst[i].record, data)
     IN /\ DOMAIN sanitized # {}
        /\ Becomes(i, inst[i], [op |-> "update", data |-> data,
                                update |-> sanitized,
                                record |-> Assign(inst[i].record, sanitized),
                                log |-> <<"fault:db", "throw">>,
                                pc |-> "idle"])
  /\ UNCHANGED <<cacheEnabled, ctor, metaCache, dbBase, dbExtra, cache, casSeq>>

\* A delete whose DELETE of the base row rejects.
DeleteDbFault(i) ==
  /\ Loaded(i)
  /\ Becomes(i, inst[i], [op |-> "delete", data |-> EmptyPayload,
                          update |-> EmptyPayload,
                          log |-> <<"fault:db", "throw">>, pc |-> "idle"])
  /\ UNCHANGED <<cacheEnabled, ctor, metaCache, dbBase, dbExtra, cache, casSeq>>

\* The fault specification: a process that has not resolved the metadata
\* yet loads the record, then updates it, reads the extra table and deletes
\* it, one call after the other, while any adapter call may reject.
InitFault ==
  /\ cacheEnabled \in BOOLEAN
  /\ ctor = ColdType(TestRecord)
  /\ metaCache \in IF cacheEnabled THEN {NoMetaEntry, ResolvedMetaEntry}
                   ELSE {NoMetaEntry}
  /\ dbBase = [exists |-> TRUE, row |-> InitialRow]
  /\ dbExtra = [k \in ExtraIds |-> IF k = KeyId
                  THEN [exists |-> TRUE, row |-> InitialExtraRow] ELSE NoRow]
  /\ cache = NoEntry
  /\ casSeq = 1
  /\ inst = <<NoInstance>>
  /\ ops = 0
  /\ overlap = FALSE
  /\ bus = NoBus

\* The adapter calls of the calls in progress, and their rejections.
FaultSteps ==
  \/ \E i \in Inst : GetMetadata(i)
  \/ \E i \in Inst : MetaAdd(i)
  \/ \E i \in Inst : CacheDependencies(i)
  \/ \E i \in Inst : ShowColumns(i)
  \/ \E i \in Inst : CacheExtraFields(i)
  \/ \E i \in Inst : LoadSelect(i)
  \/ \E i \in Inst : LoadWrite(i)
  \/ \E i \in Inst : LoadRefresh(i)
  \/ \E i \in Inst : CasAttempt(i)
  \/ \E i \in Inst : CasRefreshStored(i)
  \/ \E i \in Inst : CasRefreshFailed(i)
  \/ \E i \in Inst : PersistBase(i)
  \/ \E i \in Inst : PersistExtra(i)
  \/ \E i \in Inst : InsertExtra(i)
  \/ \E i \in Inst : DeleteExtra(i)
  \/ \E i \in Inst : CacheDel(i)
  \/ \E i \in Inst : AddSentinel(i)
  \/ \E i \in Inst : CacheFault(i)
  \/ \E i \in Inst : DbFault(i)

NextFault ==
  \/ \E i \in Inst, force \in BOOLEAN : Call /\ Load(i, force)
  \/ \E i \in Inst : Call /\ LoadCacheFault(i)
  \/ \E i \in Inst, data \in {[name |-> "b"], [note |-> "b"]} :
       \/ Call /\ Update(i, data)
       \/ Call /\ UpdateCacheFault(i, data)
       \/ Call /\ UpdateDbFault(i, data)
  \/ \E i \in Inst, t \in DeleteTimeouts : Call /\ Delete(i, t)
  \/ \E i \in Inst : Call /\ DeleteDbFault(i)
  \/ \E i \in Inst : Call /\ ReadExtraData(i)
  \/ Step /\ FaultSteps

SpecFault == InitFault /\ [][NextFault]_vars

\* -------------------------------------------------------- load specification
\* Processes load the record, not forced, while other processes write the
\* key or let it expire. The key starts absent, or holding a payload, or the sentinel
\* of a recent delete, or a value that is neither (a corrupted entry); the
\* row exists, or was deleted.
ForeignEntry(kind) ==
  [kind |-> kind,
   value |-> IF kind = "object" THEN InitialPayload ELSE EmptyPayload,
   cas |-> 1,
   ttl |-> IF kind = "sentinel" THEN 5 ELSE DEFAULT_CACHE_EXPIRATION]

InitLoad ==
  /\ cacheEnabled = TRUE
  /\ ctor = ResolvedType(TestRecord)
  /\ metaCache = ResolvedMetaEntry
  /\ dbBase \in {[exists |-> TRUE, row |-> InitialRow], NoRow}
  /\ dbExtra = [k \in ExtraIds |-> NoRow]
  /\ cache \in {NoEntry} \cup
               {ForeignEntry(k) : k \in {"object", "sentinel", "scalar"}}
  /\ casSeq = 2
  /\ inst = [i \in 1..NumInst |-> NoInstance]
  /\ ops = 0
  /\ overlap = FALSE
  /\ bus = NoBus

\* A write or an expiry by the environment takes one of its MaxForeign
\* turns.
Foreign ==
  /\ ops < MaxForeign /\ ops' = ops + 1 /\ overlap' = (overlap \/ Busy)
  /\ UNCHANGED bus

NextLoad ==
  \/ \E i \in Inst : Step /\ Load(i, FALSE)
  \/ \E i \in Inst : Step /\ LoadSelect(i)
  \/ \E i \in Inst : Step /\ LoadWrite(i)
  \/ \E i \in Inst : Step /\ LoadRefresh(i)
  \/ Foreign /\ OtherWrite
  \/ Foreign /\ Expire

SpecLoad == InitLoad /\ [][NextLoad]_vars

\* ------------------------------------------------------ insert specification
\* What the base INSERT returns as insertId: the generated id, or none.
InsertIds == {KeyId, Undefined}

\* The data of the inserts: base columns, extra columns, both, none, with
\* and without the key fields.
InsertInputs ==
  { EmptyPayload,
    [name |-> "b"],
    [note |-> "b"],
    [name |-> "b", note |-> "b"],
    [id |-> KeyId, name |-> "b", note |-> "b"],
    [id |-> KeyId, tag |-> "b", name |-> "b"],
    [id |-> KeyId, tag |-> "b", note |-> "b"] }

\* The insert specification: one process, whose record type is the type of
\* the tests, a type that registers field events, a type with a composite
\* key or a type without table name, and
\* has not resolved its metadata yet, inserts into the empty tables and
\* loads, updates and deletes what it inserted, one call after the other,
\* holding up to two instances.
InitInsert ==
  /\ cacheEnabled \in BOOLEAN
  /\ ctor \in {ColdType(TestRecord), ColdType(NotifyingRecord),
               ColdType(CompositeRecord), ColdType(UntabledRecord)}
  /\ metaCache \in IF cacheEnabled THEN {NoMetaEntry, ResolvedMetaEntry}
                   ELSE {NoMetaEntry}
  /\ dbBase = NoRow
  /\ dbExtra = [k \in ExtraIds |-> NoRow]
  /\ cache = NoEntry
  /\ casSeq = 1
  /\ inst = <<NoInstance, NoInstance>>
  /\ ops = 0
  /\ overlap = FALSE
  /\ bus = NoBus

\* A call made when no other call is in progress.
CallAlone == Call /\ ~Busy

\* The operations on an instance use getPrimaryKeyValue, which a type with
\* a composite key does not support: they are called on the others only.
SingleKey == Len(ctor.primaryKey) = 1

NextInsert ==
  \/ \E i \in Inst, data \in InsertInputs, emitEvent \in BOOLEAN,
          insertId \in InsertIds :
       CallAlone /\ Insert(i, data, emitEvent, insertId)
  \/ \E i \in Inst, force \in BOOLEAN : CallAlone /\ Load(i, force)
  \/ \E i \in Inst : CallAlone /\ LoadWithoutKey(i)
  \/ \E i \in Inst, data \in {[name |-> "a"], [note |-> "a"],
                                [name |-> "a", note |-> "a"]} :
       CallAlone /\ SingleKey /\ Update(i, data)
  \/ \E i \in Inst, t \in DeleteTimeouts :
       CallAlone /\ SingleKey /\ Delete(i, t)
  \/ \E i \in Inst : Step /\ GetMetadata(i)
  \/ \E i \in Inst : Step /\ MetaAdd(i)
  \/ \E i \in Inst : Step /\ CacheDependencies(i)
  \/ \E i \in Inst : Step /\ ShowColumns(i)
  \/ \E i \in Inst : Step /\ CacheExtraFields(i)
  \/ \E i \in Inst, insertId \in InsertIds : Step /\ InsertBase(i, insertId)
  \/ \E i \in Inst : Step /\ InsertExtraRow(i)
  \/ \E i \in Inst : Step /\ LoadSelect(i)
  \/ \E i \in Inst : Step /\ LoadWrite(i)
  \/ \E i \in Inst : Step /\ LoadRefresh(i)
  \/ \E i \in Inst : Step /\ CasAttempt(i)
  \/ \E i \in Inst : Step /\ CasRefreshStored(i)
  \/ \E i \in Inst : Step /\ CasRefreshFailed(i)
  \/ \E i \in Inst : Step /\ PersistBase(i)
  \/ \E i \in Inst : Step /\ PersistExtra(i)
  \/ \E i \in Inst : Step /\ InsertExtra(i)
  \/ \E i \in Inst : Step /\ DeleteExtra(i)
  \/ \E i \in Inst : Step /\ CacheDel(i)
  \/ \E i \in Inst : Step /\ AddSentinel(i)

SpecInsert == InitInsert /\ [][NextInsert]_vars

\* ------------------------------------------------- extra-table specification
\* The general specification begun where another process has merged the
\* extra table into the cached payload.
InitExtra ==
  /\ cacheEnabled = TRUE
  /\ ctor = ResolvedType(TestRecord)
  /\ metaCache = ResolvedMetaEntry
  /\ dbBase = [exists |-> TRUE, row |-> InitialRow]
  /\ dbExtra = [k \in ExtraIds |-> IF k = KeyId
                  THEN [exists |-> TRUE, row |-> InitialExtraRow] ELSE NoRow]
  /\ cache = CurrentEntry
  /\ casSeq = CurrentEntry.cas + 1
  /\ inst = [i \in 1..NumInst |-> NoInstance]
  /\ ops = 0
  /\ overlap = FALSE
  /\ bus = NoBus

SpecExtra == InitExtra /\ [][Next]_vars

\* --------------------------------------------------- metadata specification
\* A process that has not resolved the metadata of the type yet loads the
\* record three times, forced or not, the loads overlapping as their adapter
\* calls return; the metadata entry of the cache is absent, or is what an
\* earlier process stored.
InitMeta ==
  /\ cacheEnabled \in BOOLEAN
  /\ ctor = ColdType(TestRecord)
  /\ metaCache \in IF cacheEnabled THEN {NoMetaEntry, ResolvedMetaEntry}
                   ELSE {NoMetaEntry}
  /\ dbBase = [exists |-> TRUE, row |-> InitialRow]
  /\ dbExtra = [k \in ExtraIds |-> IF k = KeyId
                  THEN [exists |-> TRUE, row |-> InitialExtraRow] ELSE NoRow]
  /\ cache = NoEntry
  /\ casSeq = 1
  /\ inst = <<NoInstance, NoInstance, NoInstance>>
  /\ ops = 0
  /\ overlap = FALSE
  /\ bus = NoBus

NextMeta ==
  \/ \E i \in Inst, force \in BOOLEAN : Call /\ Load(i, force)
  \/ \E i \in Inst : Step /\ GetMetadata(i)
  \/ \E i \in Inst : Step /\ MetaAdd(i)
  \/ \E i \in Inst : Step /\ CacheDependencies(i)
  \/ \E i \in Inst : Step /\ ShowColumns(i)
  \/ \E i \in Inst : Step /\ CacheExtraFields(i)
  \/ \E i \in Inst : Step /\ LoadSelect(i)
  \/ \E i \in Inst : Step /\ LoadWrite(i)
  \/ \E i \in Inst : Step /\ LoadRefresh(i)

SpecMeta == InitMeta /\ [][NextMeta]_vars

\* ------------------------------------------------------ probe specification
\* A process loads the record, deletes it with or without a timeout, and
\* asks whether the record is in the cache, while entries expire. The key
\* starts absent, or holding a payload, the sentinel of a recent delete or
\* a value that is neither.
InitProbe ==
  /\ cacheEnabled \in BOOLEAN
  /\ ctor = ResolvedType(TestRecord)
  /\ metaCache = IF cacheEnabled THEN ResolvedMetaEntry ELSE NoMetaEntry
  /\ dbBase = [exists |-> TRUE, row |-> InitialRow]
  /\ dbExtra = [k \in ExtraIds |-> NoRow]
  /\ cache \in IF cacheEnabled
               THEN {NoEntry} \cup
                    {ForeignEntry(k) : k \in {"object", "sentinel", "scalar"}}
               ELSE {NoEntry}
  /\ casSeq = 2
  /\ inst = [i \in 1..NumInst |-> NoInstance]
  /\ ops = 0
  /\ overlap = FALSE
  /\ bus = NoBus

NextProbe ==
  \/ \E i \in Inst, force \in BOOLEAN : Call /\ Load(i, force)
  \/ \E i \in Inst, t \in DeleteTimeouts : Call /\ Delete(i, t)
  \/ \E i \in Inst : Call /\ IsInCache(i)
  \/ \E i \in Inst : Step /\ LoadSelect(i)
  \/ \E i \in Inst : Step /\ LoadWrite(i)
  \/ \E i \in Inst : Step /\ LoadRefresh(i)
  \/ \E i \in Inst : Step /\ DeleteExtra(i)
  \/ \E i \in Inst : Step /\ CacheDel(i)
  \/ \E i \in Inst : Step /\ AddSentinel(i)
  \/ Call /\ Expire

SpecProbe == InitProbe /\ [][NextProbe]_vars

\* ------------------------------------------------- expression specification
\* Updates that set a base column, an extra column or both, to a plain
\* value or to a raw SQL expression.
SqlInputs ==
  { [note |-> "b"],
    [note |-> "NOW()"],
    [note |-> "UPPER(?)"],
    [name |-> "UPPER(?)"],
    [name |-> "b", note |-> "UPPER(?)"] }

\* The expression specification: instances are loaded and update the
\* record, with plain values and with raw SQL expressions, and read the
\* extra table, whose row exists or does not exist yet.
InitSql ==
  /\ cacheEnabled \in BOOLEAN
  /\ ctor = ResolvedType(TestRecord)
  /\ metaCache = IF cacheEnabled THEN ResolvedMetaEntry ELSE NoMetaEntry
  /\ dbBase = [exists |-> TRUE, row |-> InitialRow]
  /\ dbExtra \in {[k \in ExtraIds |-> NoRow],
                  [k \in ExtraIds |-> IF k = KeyId
                      THEN [exists |-> TRUE, row |-> InitialExtraRow] ELSE NoRow]}
  /\ cache = NoEntry
  /\ casSeq = 1
  /\ inst = [i \in 1..NumInst |-> NoInstance]
  /\ ops = 0
  /\ overlap = FALSE
  /\ bus = NoBus

NextSql ==
  \/ \E i \in Inst, force \in BOOLEAN : Call /\ Load(i, force)
  \/ \E i \in Inst, data \in SqlInputs : Call /\ Update(i, data)
  \/ \E i \in Inst : Call /\ ReadExtraData(i)
  \/ \E i \in Inst : Step /\ LoadSelect(i)
  \/ \E i \in Inst : Step /\ LoadWrite(i)
  \/ \E i \in Inst : Step /\ LoadRefresh(i)
  \/ \E i \in Inst : Step /\ CasAttempt(i)
  \/ \E i \in Inst : Step /\ CasRefreshStored(i)
  \/ \E i \in Inst : Step /\ CasRefreshFailed(i)
  \/ \E i \in Inst : Step /\ PersistBase(i)
  \/ \E i \in Inst : Step /\ PersistExtra(i)
  \/ \E i \in Inst : Step /\ InsertExtra(i)

SpecSql == InitSql /\ [][NextSql]_vars

\* -------------------------------------------------- dependency specification
\* The maps a type declares, the derived fields it declares and the maps a
\* metadata entry holds.
DeclaredMaps ==
  {NoMap, MapOf(<<>>), MapOf([name |-> {"uppercaseName"}]),
   MapOf([tag |-> {"label"}])}
DerivedMaps ==
  {NoMap, MapOf([uppercaseName |-> {"name"}]),
   MapOf([label |-> {"name", "tag"}, uppercaseName |-> {"name"}])}
CachedMaps == {NoMap, MapOf(<<>>), MapOf([name |-> {"label"}])}

\* The dependency specification: a process loads records of a type, one
\* after the other; the type declares a map, derived fields, both or
\* neither, and the metadata entry is absent, or holds a map or none.
InitDeps ==
  /\ cacheEnabled = TRUE
  /\ \E declared \in DeclaredMaps, derived \in DerivedMaps :
       ctor = [declared |-> declared, dependencies |-> declared,
               derivedFields |-> derived,
               metadata |-> [set |-> FALSE, dependencies |-> NoMap]]
  /\ metaCache \in {[exists |-> FALSE, dependencies |-> NoMap]} \cup
                   {[exists |-> TRUE, dependencies |-> m] : m \in CachedMaps}
  /\ dbBase = [exists |-> TRUE, row |-> InitialRow]
  /\ dbExtra = [k \in ExtraIds |-> NoRow]
  /\ cache = NoEntry
  /\ casSeq = 1
  /\ inst = [i \in 1..NumInst |-> NoInstance]
  /\ ops = 0
  /\ overlap = FALSE
  /\ bus = NoBus

NextDeps == \E i \in Inst : CallAlone /\ LoadDependencies(i)

SpecDeps == InitDeps /\ [][NextDeps]_vars

\* -------------------------------------------------- extra-key specification
\* The row of the extra table of a type, under its key column.
ExtraRowOf(type) ==
  Assign([note |-> "a"],
         [c \in {GetExtraPrimaryKeyStatic(type)} |-> KeyId])

\* Records of a type that declares extraPrimaryKey and of one that leaves
\* the default are loaded and read the extra table, which holds the row of
\* the record or not.
InitExtraKey ==
  /\ cacheEnabled \in BOOLEAN
  /\ ctor \in {ResolvedType(TestRecord), ResolvedType(SharedKeyRecord)}
  /\ metaCache = IF cacheEnabled THEN ResolvedMetaEntry ELSE NoMetaEntry
  /\ dbBase = [exists |-> TRUE, row |-> InitialRow]
  /\ dbExtra \in {[k \in ExtraIds |-> NoRow],
                  [k \in ExtraIds |-> IF k = KeyId
                      THEN [exists |-> TRUE, row |-> ExtraRowOf(ctor)]
                      ELSE NoRow]}
  /\ \/ cache = NoEntry /\ casSeq = 1
     \/ /\ cacheEnabled
        /\ cache = [kind |-> "object", value |-> InitialPayload, cas |-> 1,
                    ttl |-> DEFAULT_CACHE_EXPIRATION]
        /\ casSeq = 2
  /\ inst = [i \in 1..NumInst |-> NoInstance]
  /\ ops = 0
  /\ overlap = FALSE
  /\ bus = NoBus

NextExtraKey ==
  \/ \E i \in Inst, force \in BOOLEAN : Call /\ Load(i, force)
  \/ \E i \in Inst : Call /\ ReadExtraData(i)
  \/ \E i \in Inst : Step /\ LoadSelect(i)
  \/ \E i \in Inst : Step /\ LoadWrite(i)
  \/ \E i \in Inst : Step /\ LoadRefresh(i)
  \/ \E i \in Inst : Step /\ CasAttempt(i)
  \/ \E i \in Inst : Step /\ CasRefreshStored(i)
  \/ \E i \in Inst : Step /\ CasRefreshFailed(i)

SpecExtraKey == InitExtraKey /\ [][NextExtraKey]_vars

\* ------------------------------------------------------ stale specification
\* The row after another instance has set name to "b".
ChangedRow == [InitialRow EXCEPT !["name"] = "b"]

\* The general specification begun where an instance has loaded the record
\* and another process has then changed the name, in the row and in the
\* cache entry: the instance holds the earlier payload and, with cache, a
\* token no longer current.
InitStale ==
  /\ cacheEnabled \in BOOLEAN
  /\ ctor = ResolvedType(TestRecord)
  /\ metaCache = IF cacheEnabled THEN ResolvedMetaEntry ELSE NoMetaEntry
  /\ dbBase = [exists |-> TRUE, row |-> ChangedRow]
  /\ dbExtra = [k \in ExtraIds |-> NoRow]
  /\ cache = IF cacheEnabled
             THEN [kind |-> "object", value |-> DecorateRecord(ChangedRow),
                   cas |-> 2, ttl |-> DEFAULT_CACHE_EXPIRATION]
             ELSE NoEntry
  /\ casSeq = 3
  /\ inst = [i \in 1..NumInst |->
              IF i > 1 THEN NoInstance
              ELSE IF cacheEnabled THEN LoadedFromCache(InitialPayload, 1)
              ELSE Assign(LoadedFromCache(InitialPayload, 0),
                          [inCache |-> FALSE, log |-> <<"select">>])]
  /\ ops = 0
  /\ overlap = FALSE
  /\ bus = NoBus

SpecStale == InitStale /\ [][Next]_vars

\* --------------------------------------------------------- bus specification
\* Calls on the bus in one behaviour of the bus specification.
MaxBusCalls == 4

\* A call on the bus; the records are left alone.
BusCall ==
  /\ ops < MaxBusCalls /\ ops' = ops + 1
  /\ UNCHANGED <<cacheEnabled, ctor, metaCache, dbBase, dbExtra, cache,
                 casSeq, inst, overlap>>

\* A new bus; no record is loaded.
InitBus ==
  /\ cacheEnabled = TRUE
  /\ ctor = ResolvedType(TestRecord)
  /\ metaCache = ResolvedMetaEntry
  /\ dbBase = [exists |-> TRUE, row |-> InitialRow]
  /\ dbExtra = [k \in ExtraIds |-> NoRow]
  /\ cache = NoEntry
  /\ casSeq = 1
  /\ inst = [i \in 1..NumInst |-> NoInstance]
  /\ ops = 0
  /\ overlap = FALSE
  /\ bus = NoBus

NextBus ==
  \/ \E e \in BusEvents, l \in BusListeners : BusCall /\ On(e, l)
  \/ \E e \in BusEvents, l \in BusListeners : BusCall /\ Once(e, l)
  \/ \E e \in BusEvents, l \in BusListeners : BusCall /\ Off(e, l)
  \/ \E e \in BusEvents, l \in BusListeners : BusCall /\ Dispose(e, l)
  \/ \E e \in BusEvents : BusCall /\ Emit(e)

\* The bus specification: listeners are added, removed and events emitted
\* on a new bus, in any order.
SpecBus == InitBus /\ [][NextBus]_vars

\* --------------------------------------------------------- key specification
\* The key mappings instances are constructed with: one field or two, the
\* names and values in several letter cases, values as strings and numbers,
\* and the empty mapping.
KeyFields == {<<"i", "d">>, <<"I", "d">>, <<"I", "D">>}
KeyStrings == {<<"1">>, <<"a">>, <<"A">>, <<"a", "b">>, <<"A", "b">>, <<"b", "a">>}
KeyNumbers == {1, 12}
KeyValues == {Str(v) : v \in KeyStrings} \cup {Num(n) : n \in KeyNumbers}
KeyInputs ==
  {<<>>}
  \cup {<< <<f, v>> >> : f \in KeyFields, v \in KeyValues}
  \cup {<< <<f, Num(1)>>, <<t, Str(v)>> >> :
          f \in {<<"i", "d">>, <<"I", "D">>},
          t \in {<<"t", "a", "g">>, <<"T", "a", "g">>},
          v \in {<<"a">>, <<"A">>}}
  \cup {<< <<<<"t", "a", "g">>, Str(<<"a">>)>>, <<<<"i", "d">>, Num(1)>> >>}
  \cup {<< <<<<"i", "d">>, Str(<<"a", ".", "t", "a", "g", ".", "b">>)>>,
            <<<<"t", "a", "g">>, Str(<<"a">>)>> >>,
         << <<<<"i", "d">>, Str(<<"a">>)>>,
            <<<<"t", "a", "g">>, Str(<<"b", ".", "t", "a", "g", ".", "a">>)>> >>}

\* The key specification: a process constructs instances for key mappings
\* of its choice.
InitKey ==
  /\ cacheEnabled = TRUE
  /\ ctor = ResolvedType(TestRecord)
  /\ metaCache = ResolvedMetaEntry
  /\ dbBase = [exists |-> TRUE, row |-> InitialRow]
  /\ dbExtra = [k \in ExtraIds |-> NoRow]
  /\ cache = NoEntry
  /\ casSeq = 1
  /\ inst = [i \in 1..NumInst |-> NoInstance]
  /\ ops = 0
  /\ overlap = FALSE
  /\ bus = NoBus

NextKey ==
  \E i \in Inst, keyValues \in KeyInputs : Call /\ Construct(i, keyValues)

SpecKey == InitKey /\ [][NextKey]_vars

\* ================================================================== claims
\* The update of instance i has returned.
Returned(i) == Idle(i) /\ inst[i].op = "update"

\* The cached payload carries the change of updater i.
Merged(i) == IsObject(cache) /\ Get(cache.value, UpdaterField(i)) = "b"

\* Every updater loaded the entry the cache holds when the updates begin.
TokensCurrent == \A i \in Inst : inst[i].loadedCas = CurrentEntry.cas

\* C1 as stated: once the updates of the N instances (2 <= N <= 5), each on
\* a field of its own, have all returned, the cached payload contains all N
\* field changes.
C1_Original == (\A i \in Inst : Returned(i)) => \A i \in Inst : Merged(i)

\* C1 amended: once the N updates have all returned the cached payload
\* contains all N field changes, for 2 <= N <= 4 whatever the tokens, and for
\* N = 5 when every updater's token is the one of the entry the cache holds
\* when the updates begin.
C1_AllMerged ==
  ( /\ \A i \in Inst : Returned(i)
    /\ Cardinality(Inst) < MAX_CAS_ATTEMPTS \/ TokensCurrent )
  => \A i \in Inst : Merged(i)

\* Five updaters with current tokens have returned, one of them after four
\* failed attempts, and the entry carries the five changes.
C1_Witness ==
  /\ Cardinality(Inst) = MAX_CAS_ATTEMPTS
  /\ TokensCurrent
  /\ \A i \in Inst : Returned(i) /\ Merged(i)
  /\ \E i \in Inst : Count(inst[i].log, "cas:false") = MAX_CAS_ATTEMPTS - 1

\* The step in which a cas of update() by instance i stores its candidate.
CasStoredBy(i) ==
  /\ inst[i].pc # "casStored"
  /\ inst'[i].pc = "casStored"
  /\ inst'[i].op = "update"

\* The fields an update may change: its own and their declared dependents.
OwnFields(update) ==
  (DOMAIN update) \cup UNION {Dependents(f) : f \in DOMAIN update}

\* C2: every successful cas of an update stores the value the entry held
\* (the one its token was issued for) changed only in the updater's own
\* sanitised fields, which take the update's values, and in their dependents,
\* which are removed; every other field, so every field another updater
\* wrote before, keeps its value.
C2_CasRebased ==
  [][\A i \in Inst : CasStoredBy(i) =>
       LET update == inst'[i].update
       IN /\ \A f \in ((DOMAIN cache.value) \cup (DOMAIN cache'.value))
                        \ OwnFields(update) :
               Get(cache'.value, f) = Get(cache.value, f)
          /\ \A f \in DOMAIN update :
               Get(cache'.value, f) =
                 IF update[f] = Null THEN Undefined ELSE update[f]
          /\ \A f \in OwnFields(update) \ DOMAIN update :
               f \notin DOMAIN cache'.value]_vars

\* A retried cas of an update has stored its candidate over an entry that
\* carries the change of another updater, which has returned.
C2_Witness ==
  \E i, j \in Inst :
    /\ i # j
    /\ inst[i].pc = "casStored" /\ inst[i].op = "update"
    /\ inst[i].attempt > 1
    /\ Returned(j) /\ Merged(j) /\ Merged(i)

\* The compareAndSwap calls in the log of an operation.
CasCalls(log) == Count(log, "cas") + Count(log, "cas:false")

\* C8: an update all of whose compareAndSwap attempts failed, the 5th
\* included, has returned without throwing, with the UPDATE of its sanitised
\* fields executed (the statement issued and the columns holding the values)
\* and the update event emitted once.
C8_ExhaustedUpdate ==
  \A i \in Inst :
    (Returned(i) /\ Count(inst[i].log, "cas:false") = MAX_CAS_ATTEMPTS) =>
      LET update == inst[i].update
          log == inst[i].log
      IN /\ Count(log, "throw") = 0
         /\ Count(log, "event:update") = 1
         /\ BaseAssignments(update) # {} =>
              /\ Count(log, "updateBase") = 1
              /\ \A f \in BaseAssignments(update) : dbBase.row[f] = update[f]
         /\ ExtraAssignments(update) # {} =>
              /\ Count(log, "updateExtra") = 1
              /\ \A f \in ExtraAssignments(update) :
                   dbExtra[KeyId].row[f] = update[f]

\* An update has returned after five failed attempts and the entry lacks
\* its change.
C8_Witness ==
  \E i \in Inst :
    /\ Returned(i)
    /\ Count(inst[i].log, "cas:false") = MAX_CAS_ATTEMPTS
    /\ IsObject(cache)
    /\ \E f \in DOMAIN inst[i].update : Get(cache.value, f) # inst[i].update[f]

\* C9: no update and no lazy read of the extra table issues more than 5
\* compareAndSwap calls, and every one that is in progress returns, whatever
\* the other writers of the key do.
C9_BoundedRetries ==
  /\ [](\A i \in Inst : CasCalls(inst[i].log) <= MAX_CAS_ATTEMPTS)
  /\ Busy ~> ~Busy

\* A lazy read of the extra table has returned after five compareAndSwap
\* calls, all of them failed.
C9_Witness ==
  \E i \in Inst :
    /\ Idle(i) /\ inst[i].op = "readExtra"
    /\ Count(inst[i].log, "cas:false") = MAX_CAS_ATTEMPTS

\* No call is in progress.
Quiescent == ~Busy

\* The payload agrees with the rows of the record on every field it
\* contains beside the bookkeeping fields: a column of the base row, a
\* column of the extra row (or its default while there is no extra row),
\* or the computed column.
AgreesWithDatabase(payload) ==
  \A f \in (DOMAIN payload) \ Bookkeeping :
    /\ f \in BaseCols => dbBase.exists /\ payload[f] = dbBase.row[f]
    /\ f \in ExtraCols \ {ExtraPrimaryKey} =>
         payload[f] = IF dbExtra[KeyId].exists THEN dbExtra[KeyId].row[f]
                      ELSE ExtraTableDefaults[f]
    /\ f \in DOMAIN DerivedFields =>
         dbBase.exists /\ payload[f] = Upper(dbBase.row["name"])

NothingToChange(record, data) ==
  \A f \in DOMAIN data :
    f \in Bookkeeping \/ data[f] = Undefined \/ data[f] = Get(record, f)

\* C4: update of a loaded record with an empty payload, or one holding only
\* bookkeeping fields, undefined values or values equal to the in-memory
\* ones, issues no SQL statement, performs no cache operation and emits no
\* event: the call returns in its first step with an empty log and leaves
\* the cache and the tables as they were.
C4_NoopUpdate ==
  [][\A i \in Inst, data \in UpdateInputs :
       (NothingToChange(inst[i].record, data) /\ Update(i, data)) =>
         /\ inst'[i].pc = "idle"
         /\ inst'[i].log = <<>>
         /\ UNCHANGED <<cache, casSeq, dbBase, dbExtra>>]_vars

\* An update with a payload that is not empty but changes nothing has
\* returned without a call or an event.
C4_Witness ==
  \E i \in Inst :
    /\ Returned(i)
    /\ inst[i].data # EmptyPayload
    /\ NothingToChange(inst[i].record, inst[i].data)
    /\ inst[i].log = <<>>

\* A non-forced load that found the row has returned.
NonForcedLoad(i) ==
  /\ Idle(i) /\ inst[i].op = "load" /\ ~inst[i].forceRead
  /\ PrimaryKeyValue(inst[i]) = KeyId

\* Two successive loads: j's call is the next call after i's, i had returned
\* before, and nothing else (no call, no expiry) came in between.
Successive(i, j) ==
  /\ cacheEnabled /\ ~overlap
  /\ NonForcedLoad(i) /\ NonForcedLoad(j)
  /\ inst[j].seq = inst[i].seq + 1

DependentsOf(update) == UNION {Dependents(f) : f \in DOMAIN update}

\* The step in which update() by instance i re-reads the entry after its
\* successful cas.
RereadBy(i) ==
  /\ inst[i].pc = "casStored"
  /\ inst[i].op = "update"
  /\ inst'[i].pc # "casStored"

\* C6 as stated: after an update of a parent field whose compareAndSwap
\* succeeded, the payload in the cache (as the cas leaves it) and the payload
\* the instance holds (when update has returned) contain none of the field's
\* dependents.
C6_Original ==
  /\ [][\A i \in Inst : CasStoredBy(i) =>
          DependentsOf(inst'[i].update) \cap DOMAIN cache'.value = {}]_vars
  /\ [](\A i \in Inst : (Returned(i) /\ Count(inst[i].log, "cas") = 1) =>
          DependentsOf(inst[i].update) \cap DOMAIN inst[i].record = {})

\* C6 amended: the payload the successful compareAndSwap stores contains
\* none of the dependents, and neither does the payload the instance adopts
\* in the re-read that follows, unless another writer replaced the entry
\* between the two.
C6_DependentsInvalidated ==
  [][\A i \in Inst :
       /\ CasStoredBy(i) =>
            DependentsOf(inst'[i].update) \cap DOMAIN cache'.value = {}
       /\ (RereadBy(i) /\ (IsObject(cache) => cache.value = inst[i].casRecord)) =>
            DependentsOf(inst[i].update) \cap DOMAIN inst'[i].record = {}]_vars

\* An update of name has returned after a successful cas; the entry and the
\* instance hold the new name and no uppercaseName.
C6_Witness ==
  \E i \in Inst :
    /\ Returned(i) /\ Count(inst[i].log, "cas") = 1
    /\ "name" \in DOMAIN inst[i].update
    /\ IsObject(cache) /\ Get(cache.value, "name") = inst[i].update["name"]
    /\ "uppercaseName" \notin DOMAIN cache.value
    /\ Get(inst[i].record, "name") = inst[i].update["name"]
    /\ "uppercaseName" \notin DOMAIN inst[i].record

\* C7 as stated: when an update that changed name has removed uppercaseName
\* from the cached payload and returned, the next non-forced load (here the
\* latest call, after calls that did not overlap) holds a payload with
\* uppercaseName, computed from the name it holds.
C7_Recomputed ==
  \A i, j \in Inst :
    ( /\ Returned(i) /\ Count(inst[i].log, "cas") = 1
      /\ "name" \in DOMAIN inst[i].update /\ inst[i].update["name"] # Null
      /\ NonForcedLoad(j) /\ inst[j].seq = ops /\ inst[j].seq > inst[i].seq
      /\ ~overlap )
    => /\ "uppercaseName" \in DOMAIN inst[j].record
       /\ inst[j].record["uppercaseName"] = Upper(Get(inst[j].record, "name"))

\* The cache calls and the SQL statements in the log of an operation.
CacheCalls(log) ==
  Count(log, "gets") + Count(log, "set") + Count(log, "add")
    + Count(log, "del") + CasCalls(log)
SqlStatements(log) ==
  Count(log, "select") + Count(log, "selectExtra") + Count(log, "updateBase")
    + Count(log, "updateExtra") + Count(log, "insertExtra")
    + Count(log, "deleteBase") + Count(log, "deleteExtra")

\* C10 as stated: a load makes at most 2 adapter calls, an update at most 10
\* cache calls and at most 2 SQL statements.
C10_Original ==
  \A i \in Inst :
    /\ inst[i].op = "load" =>
         CacheCalls(inst[i].log) + SqlStatements(inst[i].log) <= 2
    /\ inst[i].op = "update" =>
         /\ CacheCalls(inst[i].log) <= 2 * MAX_CAS_ATTEMPTS
         /\ SqlStatements(inst[i].log) <= 2

\* C10 amended: a load makes at most 4 adapter calls (the cache read, the
\* SELECT, the write to the cache and the re-read), an update at most 10
\* cache calls and at most 3 SQL statements (the UPDATE of each table and
\* the INSERT into the extra table).
C10_BoundedCalls ==
  \A i \in Inst :
    /\ inst[i].op = "load" =>
         CacheCalls(inst[i].log) + SqlStatements(inst[i].log) <= 4
    /\ inst[i].op = "update" =>
         /\ CacheCalls(inst[i].log) <= 2 * MAX_CAS_ATTEMPTS
         /\ SqlStatements(inst[i].log) <= 3

\* An update has returned after three SQL statements, and it had made two
\* cache calls.
C10_Witness ==
  \E i \in Inst :
    /\ Returned(i)
    /\ SqlStatements(inst[i].log) = 3
    /\ CacheCalls(inst[i].log) = 2

\* A non-forced load that missed the cache, selected the row and wrote it
\* to the cache with add has returned.
MissedLoad(r) ==
  /\ Idle(r) /\ inst[r].op = "load" /\ ~inst[r].forceRead
  /\ Count(inst[r].log, "add") = 1

\* delete(t) with t > 0 by instance d has returned: it issued the add of
\* the sentinel, which only a positive timeout does.
DeletedWithSentinel(d) ==
  Idle(d) /\ inst[d].op = "delete" /\ Count(inst[d].log, "add") = 1

\* The reader r and the deleter d are the only instances.
OnlyReaderAndDeleter(r, d) ==
  r # d /\ \A k \in Inst \ {r, d} : inst[k].pc = "none"

\* The add of the load found the key absent after the row was deleted: it
\* ran between the delete's Cache.del and its add of the sentinel, or after
\* the sentinel's TTL had elapsed.
UnprotectedAdd(r) == inst[r].late /\ inst[r].met = "none"

\* C11 as stated: a reader selected the row in a cache-miss load before
\* delete(t > 0) removed it; under every interleaving, once the load and
\* the delete have returned the key holds no payload (every payload is one
\* of the deleted record).
C11_Original ==
  \A r, d \in Inst :
    (OnlyReaderAndDeleter(r, d) /\ MissedLoad(r) /\ DeletedWithSentinel(d))
      => ~IsObject(cache)

\* C11 amended: once both have returned the key holds no payload, provided
\* the reader's add did not find the key absent after the row was deleted
\* (between the delete's Cache.del and its sentinel, or after the sentinel
\* had expired).
C11_SentinelSuppressesReload ==
  \A r, d \in Inst :
    ( /\ OnlyReaderAndDeleter(r, d)
      /\ MissedLoad(r) /\ DeletedWithSentinel(d)
      /\ ~UnprotectedAdd(r) )
      => ~IsObject(cache)

\* The reader selected the row, the delete committed and wrote the
\* sentinel, the reader's add then met the sentinel, and both have returned
\* with the sentinel under the key.
C11_Witness ==
  \E r, d \in Inst :
    /\ OnlyReaderAndDeleter(r, d)
    /\ MissedLoad(r) /\ DeletedWithSentinel(d)
    /\ inst[r].late /\ inst[r].met = "sentinel"
    /\ Get(inst[r].record, "name") = "a"
    /\ cache.kind = "sentinel"

\* The step in which delete() by instance i returns.
DeleteReturns(i) ==
  inst[i].op = "delete" /\ ~Idle(i) /\ inst'[i].pc = "idle"

\* C12: with caching enabled and no call overlapping another, when
\* delete(t) with t > 0 returns the base row is gone and the key holds the
\* deletion sentinel with TTL t; when delete(0) returns the key is absent;
\* and the sentinel's TTL elapsing leaves the key absent.
C12_DeleteLeavesSentinel ==
  [][/\ \A i \in Inst :
          (cacheEnabled /\ ~overlap /\ DeleteReturns(i)) =>
            /\ ~dbBase'.exists
            /\ IF inst[i].timeout > 0
                 THEN /\ cache'.kind = "sentinel"
                      /\ cache'.ttl = inst[i].timeout
                 ELSE cache'.kind = "none"
     /\ (cache.kind = "sentinel" /\ Expire) => cache'.kind = "none"]_vars

\* delete(5) has returned after calls that did not overlap: the row is gone
\* and the key holds the sentinel for 5 seconds.
C12_Witness ==
  \E i \in Inst :
    /\ cacheEnabled /\ ~overlap
    /\ DeletedWithSentinel(i)
    /\ ~dbBase.exists
    /\ cache.kind = "sentinel" /\ cache.ttl = 5

\* A non-forced load by instance i whose first read of the cache returned
\* the sentinel or another value that is not an object.
FoundNoObject(i) ==
  /\ inst[i].op = "load" /\ ~inst[i].forceRead
  /\ inst[i].found.kind \in {"sentinel", "scalar"}

\* C13: a non-forced load that finds the sentinel or another non-object
\* value under the key does not return from its cache read: it goes on to
\* the SELECT; when it has returned wasInCache() is false, its token is not
\* the unique of the entry found, and when the row is gone (the load
\* returned from noRecord, without a write to the cache) its payload is
\* noRecord's alone.
C13_SentinelIsMiss ==
  \A i \in Inst : FoundNoObject(i) =>
    /\ inst[i].pc # "select" => Count(inst[i].log, "select") = 1
    /\ inst[i].loadedCas # inst[i].found.cas
    /\ inst[i].casToken # inst[i].found.cas
    /\ Idle(i) =>
         /\ ~inst[i].inCache
         /\ Count(inst[i].log, "add") = 0 => inst[i].record = NoRecordPayload

\* A load found the sentinel of a delete, selected, and returned noRecord's
\* payload without a cache hit; another found a corrupted entry over an
\* existing row.
C13_Witness ==
  \E i \in Inst :
    /\ FoundNoObject(i) /\ Idle(i)
    /\ inst[i].found.kind = "sentinel"
    /\ inst[i].log = <<"gets", "select">>
    /\ inst[i].record = NoRecordPayload
    /\ ~inst[i].inCache

\* C14: the write of a non-forced load that missed the cache is an add: it
\* leaves an entry that is under the key, whoever stored it, as it is; and
\* the re-read that ends the load leaves the instance with the payload and
\* the token of the entry the key then holds, when it holds a payload.
C14_AddNeverClobbers ==
  [][\A i \in Inst :
       /\ (LoadWrite(i) /\ ~inst[i].forceRead) =>
            /\ inst'[i].log = Append(inst[i].log, "add")
            /\ cache.kind # "none" => cache' = cache
       /\ (LoadRefresh(i) /\ ~inst[i].forceRead /\ IsObject(cache)) =>
            /\ inst'[i].record = cache.value
            /\ inst'[i].casToken = cache.cas
            /\ Idle(i)']_vars

\* A load missed, another process stored a payload under the key before the
\* load's add, and the load has returned holding that payload and its token,
\* not the payload it selected.
C14_Witness ==
  \E i \in Inst :
    /\ Idle(i) /\ inst[i].op = "load" /\ ~inst[i].forceRead
    /\ inst[i].found.kind = "none" /\ inst[i].met = "object"
    /\ IsObject(cache)
    /\ inst[i].record = cache.value /\ inst[i].casToken = cache.cas
    /\ inst[i].record # DecorateRecord(InitialRow)

\* The sanitised fields of the update all belong to the extra table.
ExtraOnly(update) ==
  DOMAIN update # {} /\ BaseAssignments(update) = {}

\* C19 as stated: an update whose sanitised fields all belong to the extra
\* table has issued, when it returns, no statement on the base table and
\* exactly one on the extra table.
C19_Original ==
  \A i \in Inst : (Returned(i) /\ ExtraOnly(inst[i].update)) =>
    /\ Count(inst[i].log, "updateBase") = 0
    /\ Count(inst[i].log, "updateExtra") + Count(inst[i].log, "insertExtra") = 1

\* C19 amended: such an update issues no statement on the base table and
\* exactly one UPDATE on the extra table, followed by exactly one INSERT
\* into the extra table when, and only when, the UPDATE matched no row.
C19_ExtraOnlyUpdate ==
  /\ [](\A i \in Inst : (Returned(i) /\ ExtraOnly(inst[i].update)) =>
          /\ Count(inst[i].log, "updateBase") = 0
          /\ Count(inst[i].log, "updateExtra") = 1
          /\ Count(inst[i].log, "insertExtra") <= 1)
  /\ [][\A i \in Inst : PersistExtra(i) =>
          /\ (inst'[i].pc = "insertExtra") =
               ~(PrimaryKeyValue(inst[i]) \in ExtraIds
                 /\ dbExtra[PrimaryKeyValue(inst[i])].exists)
          /\ inst'[i].pc \in {"insertExtra", "idle"}]_vars

\* An update of note alone has returned after one UPDATE of the extra
\* table, which matched the row, and the row holds the value.
C19_Witness ==
  \E i \in Inst :
    /\ Returned(i) /\ ExtraOnly(inst[i].update)
    /\ Count(inst[i].log, "updateExtra") = 1
    /\ Count(inst[i].log, "insertExtra") = 0
    /\ dbExtra[KeyId].exists /\ dbExtra[KeyId].row["note"] = "b"

\* The update ran without cache or without token: updateCache fell back to
\* merging in memory (the fallback leaves the token as it was).
WithoutCacheOrToken(i) == ~cacheEnabled \/ inst[i].casToken = 0

\* C20: an update made with caching disabled, or on an instance without
\* CAS token, makes no call to the cache (no set, add or compareAndSwap
\* among them), leaves every sanitised field with its value in the
\* in-memory payload, and has executed the UPDATE of each table it holds
\* fields of when it returns.
C20_FallbackUpdate ==
  /\ [](\A i \in Inst :
          (Returned(i) /\ DOMAIN inst[i].update # {} /\ WithoutCacheOrToken(i))
          => /\ CacheCalls(inst[i].log) = 0
             /\ \A f \in DOMAIN inst[i].update :
                  Get(inst[i].record, f) = inst[i].update[f]
             /\ BaseAssignments(inst[i].update) # {} =>
                  Count(inst[i].log, "updateBase") = 1
             /\ ExtraAssignments(inst[i].update) # {} =>
                  Count(inst[i].log, "updateExtra") = 1)
  /\ [][\A i \in Inst, data \in UpdateInputs :
          (Update(i, data) /\ WithoutCacheOrToken(i)) =>
            UNCHANGED <<cache, casSeq>>]_vars

\* With caching enabled an instance without token has returned from an
\* update of name: one UPDATE, no cache call, the entry as it was.
C20_Witness ==
  \E i \in Inst :
    /\ cacheEnabled /\ inst[i].casToken = 0
    /\ Returned(i)
    /\ inst[i].log = <<"updateBase", "event:update">>
    /\ Get(inst[i].record, "name") = "b"
    /\ dbBase.exists /\ dbBase.row["name"] = "b"

\* A database statement of the operation of instance i rejected.
DbFailed(i) == Count(inst[i].log, "fault:db") > 0

\* C17: when a database statement of an update or a delete fails the
\* error reaches the caller at once and nothing of the operation follows:
\* the operation has ended, and the failure and the throw are the last two
\* entries of its log, so no statement, no event and no cache call of the
\* invalidation comes after them.
C17_DatabaseErrorsPropagate ==
  \A i \in Inst :
    (inst[i].op \in {"update", "delete"} /\ DbFailed(i)) =>
      LET log == inst[i].log
      IN /\ Idle(i)
         /\ Count(log, "fault:db") = 1
         /\ log[Len(log) - 1] = "fault:db"
         /\ log[Len(log)] = "throw"
         /\ Count(log, "event:update") + Count(log, "event:delete") = 0
         /\ inst[i].op = "delete" =>
              Count(log, "del") + Count(log, "add") = 0

\* The DELETE of the extra row of a cached record failed after the base row
\* was deleted: delete threw, and the key still holds the payload.
C17_Witness ==
  \E i \in Inst :
    /\ inst[i].op = "delete" /\ Idle(i)
    /\ inst[i].log = <<"deleteBase", "fault:db", "throw">>
    /\ ~dbBase.exists /\ dbExtra[KeyId].exists
    /\ IsObject(cache)

\* The error of a rejected cache call left the operation: the throw follows
\* the failure directly, with no database statement between them.
ThrewOnCacheFault(log) ==
  \E k \in DOMAIN log :
    k < Len(log) /\ log[k] = "fault:cache" /\ log[k + 1] = "throw"

\* C16: no cache adapter call that fails makes the operation throw, the
\* read and the add of the table-metadata entry included: no operation of
\* any instance ends with the error of a rejected cache call.
C16_CacheErrorsSwallowed ==
  \A i \in Inst : ~ThrewOnCacheFault(inst[i].log)

\* The errors of the configuration: empty key values, no table name, a
\* composite key the data of an insert does not cover.
ConfigurationErrors == {"throw:keyValues", "throw:tableName", "throw:compositeKey"}

\* C15: a configuration error is raised before any database or cache call
\* of the operation: where the log of an operation holds such an error, it
\* is the first entry of the log.
C15_ConfigurationErrorsFirst ==
  \A i \in Inst : \A k \in DOMAIN inst[i].log :
    inst[i].log[k] \in ConfigurationErrors => k = 1

\* The insert that returned instance i was the last call made, and its data
\* held columns of both tables.
InsertedBoth(i) ==
  /\ Idle(i) /\ inst[i].op = "insert" /\ inst[i].seq = ops
  /\ BaseAssignments(inst[i].data) # {}
  /\ ExtraAssignments(inst[i].data) # {}

\* C18: an insert that returns, called with columns of both tables, has
\* executed one INSERT on the base table and one on the extra table; the
\* base row carries the base columns of the data and no other field of it,
\* the extra row carries the extra columns and is keyed by the primary-key
\* value of the new base row, which is the key of the instance returned.
C18_InsertFanOut ==
  \A i \in Inst :
    InsertedBoth(i) =>
      LET data == inst[i].data
          log == inst[i].log
      IN /\ Count(log, "insertBase") = 1
         /\ Count(log, "insertExtra") = 1
         /\ dbBase.exists
         /\ DOMAIN dbBase.row = BaseCols
         /\ \A c \in BaseAssignments(data) : dbBase.row[c] = data[c]
         /\ dbExtra[dbBase.row["id"]].exists
         /\ LET row == dbExtra[dbBase.row["id"]].row
            IN /\ row[ExtraPrimaryKey] = dbBase.row["id"]
               /\ \A c \in ExtraAssignments(data) : row[c] = data[c]
         /\ PrimaryKeyValue(inst[i]) = dbBase.row["id"]

\* An insert of a name and a note has returned: the process had to read
\* the metadata entry and the columns of the extra table first.
C18_Witness ==
  \E i \in Inst :
    /\ InsertedBoth(i)
    /\ inst[i].data = [name |-> "b", note |-> "b"]
    /\ Count(inst[i].log, "showColumns") = 1
    /\ inst[i].log[Len(inst[i].log)] = "event:insert"
    /\ dbBase.row["name"] = "b"
    /\ dbExtra[KeyId].row = [record_id |-> KeyId, note |-> "b"]

\* The latest compareAndSwap of the update of instance i failed and the
\* re-read after it found no object under the key.
RereadFoundNoObject(i) ==
  /\ inst[i].op = "update"
  /\ Count(inst[i].log, "cas:false") > 0
  /\ inst[i].reread \notin {"", "object"}

\* The last place of an entry in a log.
LastOf(log, what) ==
  CHOOSE k \in DOMAIN log :
    log[k] = what /\ \A m \in DOMAIN log : m > k => log[m] # what

\* C21: when a compareAndSwap of an update fails and the re-read finds no
\* object, the update is at its database statements or has returned: after
\* the failed compareAndSwap its log holds the re-read, then only the
\* statements of persistUpdate and the update event, no cache call and no
\* throw; once returned, the event is its last entry.
C21_MissingEntryEndsCas ==
  \A i \in Inst :
    RereadFoundNoObject(i) =>
      LET log == inst[i].log
          k == LastOf(log, "cas:false")
      IN /\ inst[i].pc \in {"persistBase", "persistExtra", "idle"}
         /\ k < Len(log) /\ log[k + 1] = "gets"
         /\ \A m \in DOMAIN log :
              m > k + 1 => log[m] \in {"updateBase", "updateExtra", "event:update"}
         /\ Idle(i) => log[Len(log)] = "event:update"

\* The entry expired under an update whose compareAndSwap failed: the update
\* returned after one failed attempt, and the key is still empty.
C21_Witness ==
  \E i \in Inst :
    /\ RereadFoundNoObject(i) /\ Idle(i)
    /\ inst[i].log = <<"cas:false", "gets", "updateBase", "event:update">>
    /\ Get(inst[i].data, "name") = "b"
    /\ dbBase.row["name"] = "b"
    /\ cache.kind = "none"

\* The step is the SELECT of the load of instance i.
Selects(i) ==
  /\ inst'[i].op = "load"
  /\ Count(inst'[i].log, "select") = 1
  /\ inst[i].pc = "none" \/ Count(inst[i].log, "select") = 0

\* The cache calls of a log that write the record key.
CacheWrites(log) ==
  Count(log, "set") + Count(log, "add") + Count(log, "cas") + Count(log, "cas:false")

\* What C22 says of a step: a SELECT of a load that finds no row ends the
\* load with noRecord's payload; the load has made no write to the cache
\* and the SELECT was its last call; the entry of the key is as it was.
NoRowNoWrite ==
  \A i \in Inst :
    (Selects(i) /\ ~dbBase.exists) =>
      /\ inst'[i].pc = "idle"
      /\ inst'[i].hasRecord
      /\ \A f \in DOMAIN NoRecordPayload : Get(inst'[i].record, f) = NoRecordPayload[f]
      /\ CacheWrites(inst'[i].log) = 0
      /\ inst'[i].log[Len(inst'[i].log)] = "select"
      /\ cache' = cache

\* C22: a load whose SELECT finds no row calls the no-record behaviour of
\* the type and returns without a set, add or compareAndSwap on the key.
C22_NoRowNoWrite == [][NoRowNoWrite]_vars

\* With the cache enabled, a load of a key without row missed the cache,
\* selected no row and returned noRecord's payload; the key is empty.
C22_Witness ==
  \E i \in Inst :
    /\ cacheEnabled /\ ~dbBase.exists
    /\ Idle(i) /\ inst[i].op = "load" /\ ~inst[i].forceRead
    /\ inst[i].log[1] = "gets"
    /\ inst[i].log[Len(inst[i].log)] = "select"
    /\ inst[i].record = NoRecordPayload
    /\ cache.kind = "none"

\* Instance i is being loaded, or was loaded last, with forceRead = true:
\* by load, or by the load within insert.
ForcedLoad(i) ==
  /\ inst[i].op \in {"load", "insert"}
  /\ inst[i].forceRead
  /\ inst[i].pc # "failed"

\* C23: a load with forceRead = true does not read the key before its
\* SELECT (its only Cache.gets is the re-read after its write) and never
\* adds; once it is past the SELECT it has issued exactly one; and when it
\* has written to the cache, the key holds the fresh payload of the row
\* whatever the key held before, a deletion sentinel included.
C23_ForcedLoadOverwrites ==
  \A i \in Inst :
    ForcedLoad(i) =>
      LET log == inst[i].log
      IN /\ Count(log, "add") = 0
         /\ \A k \in DOMAIN log :
              log[k] = "gets" => \E m \in 1..(k - 1) : log[m] = "set"
         /\ \A k \in DOMAIN log :
              log[k] = "set" => \E m \in 1..(k - 1) : log[m] = "select"
         /\ inst[i].pc \in {"write", "refresh", "insertExtraRow", "idle"} =>
              Count(log, "select") = 1
         /\ inst[i].pc = "refresh" =>
              /\ Count(log, "set") = 1
              /\ IsObject(cache)
              /\ cache.value = DecorateRecord(dbBase.row)
              /\ cache.ttl = DEFAULT_CACHE_EXPIRATION
         /\ (Idle(i) /\ cacheEnabled /\ inst[i].record # NoRecordPayload
               /\ inst[i].seq = ops) =>
              /\ Count(log, "set") = 1
              /\ IsObject(cache) /\ inst[i].casToken = cache.cas

\* An insert after a delete that left the sentinel: the forced load within
\* it met the sentinel under the key and replaced it by the new payload.
C23_Witness ==
  \E i \in Inst :
    /\ ForcedLoad(i) /\ Idle(i)
    /\ inst[i].met = "sentinel"
    /\ IsObject(cache)
    /\ Get(cache.value, "name") = "b"
    /\ inst[i].casToken = cache.cas

\* The load that made instance i was not forced and its first read of the
\* cache returned an object.
SatisfiedByCache(i) == ~inst[i].forceRead /\ inst[i].found.kind = "object"

\* C24: wasInCache() of an instance that load has returned is true exactly
\* when the load was not forced and its read of the cache returned an
\* object; a load that selected from the database reports false, whatever
\* its write-back stored or adopted.
C24_WasInCache ==
  \A i \in Inst :
    (Idle(i) /\ inst[i].hasRecord) =>
      /\ inst[i].inCache <=> SatisfiedByCache(i)
      /\ (inst[i].op = "load" /\ Count(inst[i].log, "select") > 0) =>
           ~inst[i].inCache

\* A load missed the cache while a forced load was under way; its add found
\* the payload of the forced load under the key and it adopted that payload
\* with its token: neither of the two reports a cache hit.
C24_Witness ==
  /\ \E i \in Inst :
       /\ Idle(i) /\ inst[i].op = "load" /\ ~inst[i].forceRead
       /\ inst[i].log = <<"gets", "select", "add", "gets">>
       /\ inst[i].met = "object"
       /\ IsObject(cache) /\ inst[i].casToken = cache.cas
       /\ ~inst[i].inCache
  /\ \E j \in Inst :
       /\ Idle(j) /\ inst[j].op = "load" /\ inst[j].forceRead
       /\ ~inst[j].inCache

\* The field-specific events of the record type.
FieldEventNames == {"event:" \o ctor.events[k][2] : k \in DOMAIN ctor.events}

\* The place of a log entry among the steps of an update: the calls of the
\* CAS protocol, the UPDATE of the base table, the statements on the extra
\* table, the update event, the field-specific events.
UpdatePhase(entry) ==
  IF entry \in {"cas", "cas:false", "gets"} THEN 1
  ELSE IF entry = "updateBase" THEN 2
  ELSE IF entry \in {"updateExtra", "insertExtra"} THEN 3
  ELSE IF entry = "event:update" THEN 4
  ELSE IF entry \in FieldEventNames THEN 5
  ELSE 0

\* C25: the log of an update with a sanitized payload that is not empty
\* runs through the phases in order: the cache calls of the CAS protocol,
\* the base UPDATE, the extra UPDATE, the update event, the field events.
\* When the update has returned, each table holding a field of the payload
\* got one UPDATE, the update event was emitted once, and the field events
\* emitted are those registered for the fields of the payload, in the
\* order of their registration.
C25_UpdateOrder ==
  \A i \in Inst :
    (inst[i].op = "update" /\ DOMAIN inst[i].update # {}) =>
      LET log == inst[i].log
          update == inst[i].update
      IN /\ \A k \in DOMAIN log : UpdatePhase(log[k]) > 0
         /\ \A k, m \in DOMAIN log :
              k < m => UpdatePhase(log[k]) <= UpdatePhase(log[m])
         /\ Idle(i) =>
              /\ Count(log, "updateBase") =
                   (IF BaseAssignments(update) # {} THEN 1 ELSE 0)
              /\ Count(log, "updateExtra") =
                   (IF ExtraAssignments(update) # {} THEN 1 ELSE 0)
              /\ Count(log, "event:update") = 1
              /\ SelectSeq(log, LAMBDA e : UpdatePhase(e) = 5) =
                   FireFieldEvents(ctor.events, update)

\* An update of name and note on a type that registers an event for each
\* has gone through the cache, both tables and the three events.
C25_Witness ==
  \E i \in Inst :
    /\ Idle(i) /\ inst[i].op = "update"
    /\ inst[i].log = <<"cas", "gets", "updateBase", "updateExtra",
                       "event:update", "event:renamed", "event:annotated">>
    /\ dbBase.row["name"] = "a" /\ dbExtra[KeyId].row["note"] = "a"

\* The place of a log entry among the steps of insert that follow its base
\* INSERT: the forced load (the dependency map it caches, its SELECT, its
\* write to the cache and its re-read), the extra INSERT, the insert event.
InsertPhase(entry) ==
  IF entry \in {"select", "set", "gets"} THEN 1
  ELSE IF entry = "insertExtra" THEN 2
  ELSE IF entry = "event:insert" THEN 3
  ELSE 0

\* C26: in the log of an insert the base INSERT comes before the steps of
\* the forced load, these before the extra INSERT, and this before the
\* insert event. An insert that has returned an instance executed the base
\* INSERT and the SELECT of the load once each, and emitted the event once,
\* or not at all when emitEvent is false. When the base INSERT returned no
\* insertId, insert returned null right after it: no load, no extra INSERT,
\* no event.
C26_InsertOrder ==
  \A i \in Inst :
    inst[i].op = "insert" =>
      LET log == inst[i].log
      IN /\ Count(log, "insertBase") <= 1
         /\ \A k \in DOMAIN log :
              InsertPhase(log[k]) > 0 =>
                \E m \in 1..(k - 1) : log[m] = "insertBase"
         /\ \A k, m \in DOMAIN log :
              (k < m /\ InsertPhase(log[k]) > 0 /\ InsertPhase(log[m]) > 0) =>
                InsertPhase(log[k]) <= InsertPhase(log[m])
         /\ Idle(i) =>
              /\ Count(log, "insertBase") = 1
              /\ Count(log, "select") = 1
              /\ Count(log, "event:insert") = (IF inst[i].emitEvent THEN 1 ELSE 0)
              /\ Count(log, "event:insert") > 0 => log[Len(log)] = "event:insert"
         /\ inst[i].insertId = Undefined =>
              /\ inst[i].pc = "failed"
              /\ Len(log) >= 2
              /\ log[Len(log) - 1] = "insertBase"
              /\ log[Len(log)] = "return:null"
              /\ \A k \in DOMAIN log : InsertPhase(log[k]) = 0

\* An insert of a name and a note ran through its steps with the cache
\* enabled: base INSERT, SELECT, set and re-read of the forced load, extra
\* INSERT, insert event.
C26_Witness ==
  \E i \in Inst :
    /\ Idle(i) /\ inst[i].op = "insert" /\ inst[i].emitEvent /\ cacheEnabled
    /\ ExtraAssignments(inst[i].data) # {}
    /\ SelectSeq(inst[i].log, LAMBDA e : e = "insertBase" \/ InsertPhase(e) > 0) =
         <<"insertBase", "select", "set", "gets", "insertExtra", "event:insert">>

\* The place of a log entry among the steps of delete.
DeletePhase(entry) ==
  IF entry = "deleteBase" THEN 1
  ELSE IF entry = "deleteExtra" THEN 2
  ELSE IF entry = "event:delete" THEN 3
  ELSE IF entry = "del" THEN 4
  ELSE IF entry = "add" THEN 5
  ELSE 0

\* No adapter call of the operation of instance i rejected.
Faultless(i) ==
  Count(inst[i].log, "fault:cache") + Count(inst[i].log, "fault:db") = 0

\* C27: the log of a delete runs through base DELETE, extra DELETE, delete
\* event, Cache.del (and the add of the sentinel) in this order. A delete
\* that has returned with the cache enabled executed each DELETE once,
\* emitted the event once and called Cache.del once, with or without CAS
\* token, and the key holds no payload.
C27_DeleteOrder ==
  \A i \in Inst :
    (inst[i].op = "delete" /\ Faultless(i)) =>
      LET log == inst[i].log
      IN /\ \A k \in DOMAIN log : DeletePhase(log[k]) > 0
         /\ \A k, m \in DOMAIN log :
              k < m => DeletePhase(log[k]) < DeletePhase(log[m])
         /\ Idle(i) =>
              /\ Count(log, "deleteBase") = 1
              /\ Count(log, "deleteExtra") = 1
              /\ Count(log, "event:delete") = 1
              /\ Count(log, "del") = (IF cacheEnabled THEN 1 ELSE 0)
              /\ ~IsObject(cache)
              /\ ~dbBase.exists /\ ~dbExtra[KeyId].exists

\* An instance whose load lost the re-read after its add, and so holds no
\* CAS token while the key holds its payload, deleted the record: the
\* entry is gone.
C27_Witness ==
  \E i \in Inst :
    /\ Idle(i) /\ inst[i].op = "delete" /\ cacheEnabled
    /\ inst[i].casToken = 0
    /\ inst[i].met = "none"
    /\ inst[i].log = <<"deleteBase", "deleteExtra", "event:delete", "del">>
    /\ cache.kind = "none"

\* Two characters are the same letter in whatever case.
CasePairs == {{"a", "A"}, {"b", "B"}, {"d", "D"}, {"g", "G"}, {"i", "I"}, {"t", "T"}}
SameLetter(c, d) == c = d \/ {c, d} \in CasePairs

\* Two strings differ in the case of letters at most.
SameButCase(str, other) ==
  /\ Len(str) = Len(other)
  /\ \A k \in DOMAIN str : SameLetter(str[k], other[k])

\* Two key mappings have the same entries in the same order but for the
\* case of letters in field names and values.
SameMappingButCase(keyValues, others) ==
  /\ Len(keyValues) = Len(others)
  /\ \A k \in DOMAIN keyValues :
       /\ SameButCase(keyValues[k][1], others[k][1])
       /\ SameButCase(StringOf(keyValues[k][2]), StringOf(others[k][2]))

\* The key as the format describes it: the prefix, then for each entry a
\* dot, the field name in lower case, a dot, the value in lower case.
RECURSIVE KeySuffix(_)
KeySuffix(keyValues) ==
  IF Len(keyValues) = 0 THEN <<>>
  ELSE <<".">> \o ToLowerCase(keyValues[1][1]) \o <<".">> \o
       ToLowerCase(StringOf(keyValues[1][2])) \o KeySuffix(Tail(keyValues))

\* An instance constructed with a key mapping.
Constructed(i) == inst[i].pc = "constructed"

\* C28: the cache key of an instance is "V4", the database name, a dot,
\* the table name and, for each key field in order, a dot, the field name
\* in lower case, a dot and the value as a string in lower case; and two
\* instances whose key mappings differ in letter case at most, or not at
\* all, have the same key.
C28_CacheKeyFormat ==
  /\ \A i \in Inst :
       Constructed(i) =>
         inst[i].cacheKey =
           <<"V", "4">> \o DatabaseName \o <<".">> \o TableName \o
             KeySuffix(inst[i].keyValues)
  /\ \A i, j \in Inst :
       (Constructed(i) /\ Constructed(j)
          /\ SameMappingButCase(inst[i].keyValues, inst[j].keyValues)) =>
         inst[i].cacheKey = inst[j].cacheKey

\* Instances were constructed for {Id: "A"} and {id: "a"}, which differ in
\* case alone, and have the key of the tests' format in common.
C28_Witness ==
  \E i, j \in Inst :
    /\ Constructed(i) /\ Constructed(j)
    /\ inst[i].keyValues = << <<<<"I", "d">>, Str(<<"A">>)>> >>
    /\ inst[j].keyValues = << <<<<"i", "d">>, Str(<<"a">>)>> >>
    /\ inst[i].cacheKey = inst[j].cacheKey
    /\ inst[i].cacheKey =
         <<"V", "4">> \o DatabaseName \o <<".">> \o TableName \o
           <<".", "i", "d", ".", "a">>

\* The payload of instance i says the extra table was merged into it.
ExtraTableRead(i) ==
  Loaded(i) /\ Get(inst[i].record, "extraTableRead") = "true"

\* C29: a call of readExtraData on an instance whose payload has
\* extraTableRead true returns at once: it makes no adapter call, neither
\* SQL nor cache, so the tables and the cache are as they were, and the
\* payload of the instance is what it was.
ReadsNothingAgain ==
  \A i \in Inst :
    (ExtraTableRead(i) /\ Call /\ ReadExtraData(i)) =>
      /\ inst'[i].pc = "idle"
      /\ inst'[i].log = <<>>
      /\ inst'[i].record = inst[i].record
      /\ inst'[i].casToken = inst[i].casToken
      /\ UNCHANGED <<cache, casSeq, metaCache, dbBase, dbExtra>>
C29_ExtraReadOnce == [][ReadsNothingAgain]_vars

\* An instance that found extraTableRead in the cached payload it loaded
\* has read the extra table, and nothing came of it.
C29_Witness ==
  \E i \in Inst :
    /\ ExtraTableRead(i) /\ inst[i].op = "readExtra" /\ inst[i].log = <<>>
    /\ inst[i].inCache
    /\ inst[i].record = CurrentPayload

\* The load that made instance j has resolved its metadata: it is past
\* getMetadata, resolveDependencies and getExtraFields.
ResolvedItsMetadata(j) ==
  /\ inst[j].op = "load"
  /\ inst[j].pc \in {"select", "write", "refresh", "idle"}
  /\ "extraTableFields" \in inst[j].metadata

\* This step is the call of a load that constructs instance i.
LoadBegins(i) ==
  inst[i].pc = "none" /\ inst'[i].pc # "none" /\ inst'[i].op = "load"

\* C30: a load that begins once a load of the process has resolved the
\* metadata resolves its own from the memo: it goes on to no Cache.get of
\* the metadata entry and to no SHOW COLUMNS.
LaterLoadUsesMemo ==
  \A i \in Inst :
    (LoadBegins(i) /\ \E j \in Inst : ResolvedItsMetadata(j)) =>
      /\ inst'[i].pc \notin {"getMetadata", "metaAdd", "showColumns"}
      /\ ctor' = ctor
C30_MetadataMemoized == [][LaterLoadUsesMemo]_vars

\* C31: isInCache returns true exactly when caching is enabled and the key
\* of the record holds a record, that is an object payload, at the moment
\* of the call.
ReportsRecord ==
  \A i \in Inst :
    (Call /\ IsInCache(i)) =>
      inst'[i].returned = (cacheEnabled /\ IsObject(cache))
C31_IsInCacheExact == [][ReportsRecord]_vars

\* The calls of the history, by position.
Calls == DOMAIN bus.trace

\* Between the calls at k and m the listener of call k was not added to
\* its event again.
NotAddedAgain(k, m) ==
  \A n \in Calls :
    (k < n /\ n < m) =>
      ~(/\ bus.trace[n].call \in {"on", "once"}
        /\ bus.trace[n].event = bus.trace[k].event
        /\ bus.trace[n].fn = bus.trace[k].fn)

\* Call m is an emit of the event of call k, after it.
LaterEmit(k, m) ==
  k < m /\ bus.trace[m].call = "emit" /\ bus.trace[m].event = bus.trace[k].event

\* Emit m invoked the listener of call k.
Invoked(k, m) ==
  \E n \in DOMAIN bus.trace[m].invoked :
    bus.trace[m].invoked[n] = bus.trace[k].fn

\* The statement as it stands: a once listener is invoked by no emit of its
\* event after the first that follows the once, and a listener removed by
\* off or by a disposer is invoked by no later emit of the event, unless
\* it was added again in between.
C32_Original ==
  /\ \A k, m, n \in Calls :
       (/\ bus.trace[k].call = "once"
        /\ LaterEmit(k, m) /\ LaterEmit(m, n) /\ NotAddedAgain(k, n)) =>
         ~Invoked(k, n)
  /\ \A k, m \in Calls :
       (/\ bus.trace[k].call \in {"off", "dispose"}
        /\ LaterEmit(k, m) /\ NotAddedAgain(k, m)) =>
         ~Invoked(k, m)

\* C32: a listener that is added with once, and was not among the listeners
\* of the event before, is invoked by the first emit of the event that
\* follows and by no later one; a listener that was among the listeners of
\* the event at most once when off or a disposer removed it is invoked by
\* no later emit of the event (unless it was added again in between).
C32_ListenersLeave ==
  /\ \A k, m \in Calls :
       (/\ bus.trace[k].call = "once" /\ bus.trace[k].held = 0
        /\ LaterEmit(k, m) /\ NotAddedAgain(k, m)
        /\ \A n \in Calls :
             (k < n /\ n < m) =>
               ~(\/ LaterEmit(k, n)
                 \/ /\ bus.trace[n].call \in {"off", "dispose"}
                    /\ bus.trace[n].event = bus.trace[k].event)) =>
         Invoked(k, m)
  /\ \A k, m, n \in Calls :
       (/\ bus.trace[k].call = "once" /\ bus.trace[k].held = 0
        /\ LaterEmit(k, m) /\ LaterEmit(m, n) /\ NotAddedAgain(k, n)) =>
         ~Invoked(k, n)
  /\ \A k, m \in Calls :
       (/\ bus.trace[k].call \in {"off", "dispose"} /\ bus.trace[k].held <= 1
        /\ LaterEmit(k, m) /\ NotAddedAgain(k, m)) =>
         ~Invoked(k, m)

\* A once listener was invoked by the first emit of its event and not by
\* the second, and another listener, removed by its disposer, by neither.
C32_Witness ==
  /\ Len(bus.trace) = 4
  /\ bus.trace[1].call = "once" /\ bus.trace[1].event = "event"
  /\ bus.trace[2].call = "emit" /\ bus.trace[2].event = "invalidate"
  /\ bus.trace[3].call = "emit" /\ bus.trace[3].event = "event"
  /\ bus.trace[3].invoked = <<"listener">>
  /\ bus.trace[4].call = "emit" /\ bus.trace[4].event = "event"
  /\ bus.trace[4].invoked = <<>>

\* The position of a column in a statement, 0 when it has none.
ColumnAt(statement, c) ==
  IF \E k \in DOMAIN statement.columns : statement.columns[k] = c
  THEN CHOOSE k \in DOMAIN statement.columns : statement.columns[k] = c
  ELSE 0

\* C33: when the UPDATE of the extra table has affected no row, the one
\* INSERT that follows can be executed and gives record_id the primary-key
\* value of the record and every extra column of the update the value the
\* UPDATE would have set; and no update makes a second INSERT.
C33_FallbackInsert ==
  \A i \in Inst :
    /\ Count(inst[i].log, "insertExtra") <= 1
    /\ (inst[i].op = "update" /\ inst[i].pc = "insertExtra") =>
         LET statement == ExtraInsertStatement(inst[i])
             inserted == InsertedValues(statement.values, statement.params)
         IN /\ Executable(statement)
            /\ ColumnAt(statement, ExtraPrimaryKey) # 0
            /\ inserted[ColumnAt(statement, ExtraPrimaryKey)] = PrimaryKeyValue(inst[i])
            /\ \A c \in ExtraAssignments(inst[i].update) :
                 /\ ColumnAt(statement, c) # 0
                 /\ inserted[ColumnAt(statement, c)] = Assigned(inst[i].update[c])

\* A payload has a raw SQL expression as the value of a field.
HoldsExpression(payload) ==
  \E f \in DOMAIN payload : IsSqlExpression(payload[f])

\* C39: no payload, in the cache or held by an instance, has a raw SQL
\* expression as the value of a field: after an update with one the field
\* has the column value, or it is not in the payload.
C39_NoExpressionInPayload ==
  /\ ~(IsObject(cache) /\ HoldsExpression(cache.value))
  /\ \A i \in Inst : ~HoldsExpression(inst[i].record)

\* The map the metadata a load finds holds: that of the memo, else that of
\* the metadata entry.
FoundInMetadata ==
  IF ctor.metadata.set THEN ctor.metadata.dependencies
  ELSE IF metaCache.exists THEN metaCache.dependencies ELSE NoMap

\* The derived fields inverted: each parent with the derived fields that
\* list it.
Inverted(derived) ==
  [p \in UNION {derived[d] : d \in DOMAIN derived} |->
     {d \in DOMAIN derived : p \in derived[d]}]

\* The map the statement gives a load, by its order of precedence.
ByPrecedence ==
  IF ctor.declared.set /\ DOMAIN ctor.declared.map # {} THEN ctor.declared.map
  ELSE IF FoundInMetadata.set THEN FoundInMetadata.map
  ELSE IF ctor.derivedFields.set THEN Inverted(ctor.derivedFields.map)
  ELSE <<>>

\* The statement as it stands, for every type: the instance a load makes
\* uses the map of the precedence.
UsesByPrecedence ==
  \A i \in Inst :
    (CallAlone /\ LoadDependencies(i)) => inst'[i].dependencies.map = ByPrecedence
C34_Original == [][UsesByPrecedence]_vars

\* C34: for a type that declares derived fields, or declares a map with
\* keys, the instance a load makes uses the declared map when it has keys,
\* otherwise the map found in the cached metadata, otherwise the derived
\* fields inverted; a type that declares neither uses no map, whatever the
\* cached metadata holds.
UsesByPrecedenceIfDeclared ==
  \A i \in Inst :
    (CallAlone /\ LoadDependencies(i)) =>
      IF \/ ctor.derivedFields.set
         \/ ctor.declared.set /\ DOMAIN ctor.declared.map # {}
      THEN inst'[i].dependencies.map = ByPrecedence
      ELSE DOMAIN inst'[i].dependencies.map = {}
C34_DependencyPrecedence == [][UsesByPrecedenceIfDeclared]_vars

\* Of one type, which declares derived fields and no map, a first instance
\* has taken the map of the metadata entry and a second uses it too; it is
\* not the inversion of the derived fields.
C34_Witness ==
  /\ ctor.derivedFields.set /\ ~ctor.declared.set
  /\ \A i \in Inst :
       /\ Idle(i)
       /\ inst[i].dependencies = MapOf([name |-> {"label"}])
       /\ inst[i].dependencies.map # Inverted(ctor.derivedFields.map)

\* C35: when no call is in progress, a row of the extra table exists for
\* a key only if the row of the base table with that key exists.
C35_ExtraRowHasBaseRow ==
  Quiescent =>
    \A k \in ExtraIds :
      dbExtra[k].exists => (dbBase.exists /\ dbBase.row["id"] = k)

\* This step is the return of an update of instance i, without error.
UpdateReturns(i) ==
  /\ inst'[i] # inst[i]
  /\ inst'[i].op = "update" /\ inst'[i].pc = "idle"
  /\ Count(inst'[i].log, "throw") = 0

\* The value the tables hold for a field once the step is taken; Undefined
\* where the row does not exist.
ColumnNext(f) ==
  IF f \in BaseCols
  THEN IF dbBase'.exists THEN dbBase'.row[f] ELSE Undefined
  ELSE IF dbExtra'[KeyId].exists THEN dbExtra'[KeyId].row[f] ELSE Undefined

\* Instance i holds the record of the row that exists.
HoldsTheRow(i) ==
  /\ dbBase.exists /\ inst[i].hasRecord
  /\ "id" \in DOMAIN inst[i].record
  /\ inst[i].record["id"] = dbBase.row["id"]

\* C36: when an update of an existing record returns without error, and no
\* call overlapped with another, the row holds, for every field of the
\* data with a value, that value.
UpdateReachesRow ==
  \A i \in Inst :
    (UpdateReturns(i) /\ ~overlap' /\ HoldsTheRow(i)) =>
      \A f \in DOMAIN inst'[i].data :
        (f \in BaseCols \cup ExtraCols /\ inst'[i].data[f] # Undefined) =>
          ColumnNext(f) = inst'[i].data[f]
C36_UpdateReachesRow == [][UpdateReachesRow]_vars

\* This step is a Cache.gets of performCasUpdate for instance i that reads
\* an object and ends the update of the cache.
LastReadOfUpdate(i) ==
  /\ inst[i].pc \in {"casStored", "casFailed"}
  /\ inst'[i] # inst[i]
  /\ IsObject(cache)
  /\ inst'[i].pc # "cas"

\* This step is one of an update of instance i other than a Cache.gets of
\* performCasUpdate.
UpdateStepWithoutRead(i) ==
  /\ inst'[i].op = "update"
  /\ inst[i].pc \notin {"casStored", "casFailed"}

\* C37: the token an instance holds when its update returns is the one its
\* latest read of the entry delivered: the last Cache.gets of the update
\* leaves the token it read in casToken, and no other step of the update
\* changes casToken.
HoldsTokenRead ==
  \A i \in Inst :
    /\ LastReadOfUpdate(i) => inst'[i].casToken = cache.cas
    /\ UpdateStepWithoutRead(i) => inst'[i].casToken = inst[i].casToken
C37_TokenOfLatestRead == [][HoldsTokenRead]_vars

\* This step is one of readExtraData on instance i.
ReadExtraStep(i) ==
  inst'[i] # inst[i] /\ inst'[i].op = "readExtra" /\ inst[i].hasRecord

\* C38: no step of readExtraData changes the value of the primary-key field
\* in the payload of the instance, whichever key column the type's extra
\* table has and whether the extra row exists or not.
KeepsPrimaryKey ==
  \A i \in Inst :
    ReadExtraStep(i) => PrimaryKeyValue(inst'[i]) = PrimaryKeyValue(inst[i])
C38_ExtraReadKeepsKey == [][KeepsPrimaryKey]_vars

\* Two key values are the same once strings are in lower case: both numbers
\* and equal, or both strings and equal in lower case.
SameValueLowerCased(value, other) ==
  IF value[1] # other[1] THEN FALSE
  ELSE IF value[1] = "number" THEN value[2] = other[2]
  ELSE ToLowerCase(value[2]) = ToLowerCase(other[2])

\* Two key mappings are the same once their field names and their string
\* values are in lower case.
SameMappingLowerCased(keyValues, others) ==
  /\ Len(keyValues) = Len(others)
  /\ \A k \in DOMAIN keyValues :
       /\ ToLowerCase(keyValues[k][1]) = ToLowerCase(others[k][1])
       /\ SameValueLowerCased(keyValues[k][2], others[k][2])

\* C40: two instances of the type whose key mappings still differ once field
\* names and string values are in lower case have different cache keys.
C40_DistinctKeys ==
  \A i, j \in Inst :
    (Constructed(i) /\ Constructed(j)
       /\ ~SameMappingLowerCased(inst[i].keyValues, inst[j].keyValues)) =>
      inst[i].cacheKey # inst[j].cacheKey

====
